---- MODULE Spec2Model ----
(***************************************************************************)
(* Model of worktree-sync: the planner (SyncPlanner), the reconciler       *)
(* (SymlinkManager) and the orchestration engine (SyncEngine).             *)
(*                                                                         *)
(* A path is a sequence of segments (an absolute path starts at "/"), the  *)
(* text of a symbolic link is a record [abs, segs], and the filesystem is  *)
(* a function from paths to entries.  Node's path.relative, path.resolve   *)
(* and the fs calls the code makes are operators on these values.          *)
(***************************************************************************)
EXTENDS Integers, Sequences, FiniteSets, TLC

VARIABLES
    config,     \* the loaded configuration (.worktreesync.json), fixed for a behaviour
    disk,       \* the filesystem: path -> entry
    history,    \* one record per finished SyncEngine.sync invocation
    applied,    \* records of direct SymlinkManager.executeAction calls
    plans,      \* records of SyncEngine.createPlan calls
    ops,        \* records of SyncEngine.unlinkSymlinks and cleanBrokenLinks calls
    lookups,    \* records of WorktreeManager.getSourceWorktree calls
    probes,     \* records of isValidSymlink and isSymlinkPointingTo calls
    procs       \* the sync runs in progress at the same time, fs call by fs call

vars == <<config, disk, history, applied, plans, ops, lookups, probes, procs>>

(***************************************************************************)
(* Bounds of the model.                                                    *)
(***************************************************************************)
MaxRuns == 2          \* sync invocations per behaviour
MaxPreexisting == 1   \* entries present under the target trees initially
MaxApplies == 1       \* direct executeAction calls per behaviour
MaxHops == 2          \* symbolic links followed by one stat
MaxPlans == 1         \* createPlan calls per behaviour
MaxOps == 2           \* sync, unlink and clean invocations per behaviour, taken together
MaxLookups == 1       \* getSourceWorktree calls per behaviour
MaxStatus == 1        \* checkStatus calls per behaviour
MaxProbes == 1        \* calls of the link-state predicates per behaviour
MaxDoctor == 1        \* doctor calls per behaviour
MaxInspections == 2   \* calls of the read-only operations per behaviour
MaxSteps == 2         \* commands and stale actions per behaviour, overwrite disabled
MaxFindings == 2      \* entries under the target trees before a doctor call

(***************************************************************************)
(* Paths (node:path, POSIX).                                               *)
(***************************************************************************)
RECURSIVE Norm(_, _)
Norm(acc, rest) ==
    IF rest = <<>> THEN acc
    ELSE IF Head(rest) = ".."
         THEN Norm(IF acc = <<>> THEN acc ELSE SubSeq(acc, 1, Len(acc) - 1), Tail(rest))
    ELSE IF Head(rest) = "."
         THEN Norm(acc, Tail(rest))
    ELSE Norm(Append(acc, Head(rest)), Tail(rest))

join(base, rel) == Norm(<<>>, base \o rel)

dirname(p) == IF p = <<>> THEN p ELSE SubSeq(p, 1, Len(p) - 1)

basename(p) == IF p = <<>> THEN "" ELSE p[Len(p)]

\* length of the longest common prefix of two absolute paths
CommonLen(a, b) ==
    LET agree == {k \in 0..(IF Len(a) < Len(b) THEN Len(a) ELSE Len(b)) : \A i \in 1..k : a[i] = b[i]}
    IN  CHOOSE k \in agree : \A j \in agree : j <= k

\* the text of a link: absolute, or relative to the directory that holds the link
AbsText(p) == [abs |-> TRUE, segs |-> p]
RelText(s) == [abs |-> FALSE, segs |-> s]
NoText == RelText(<<>>)

\* path.relative(from, to): the relative text that leads from directory `from` to `to`
relative(from, to) ==
    LET k == CommonLen(from, to)
    IN  RelText([i \in 1..(Len(from) - k) |-> ".."] \o SubSeq(to, k + 1, Len(to)))

\* path.resolve(base, text): the absolute path a link text written in `base` names
resolve(base, text) ==
    IF text.abs THEN Norm(<<>>, text.segs) ELSE Norm(<<>>, base \o text.segs)

\* path.resolve(text) === text: only an absolute, normalised text is its own resolution
isAbsoluteText(text) == text.abs /\ Norm(<<>>, text.segs) = text.segs

(***************************************************************************)
(* The working trees git lists, and the files of the model.                *)
(***************************************************************************)
Root == <<"repo">>
MainTree == [path |-> <<"repo", "main">>, branch |-> "main", isMain |-> TRUE]
Feat1Tree == [path |-> <<"repo", "feat1">>, branch |-> "feat1", isMain |-> FALSE]
Feat2Tree == [path |-> <<"repo", "feat2">>, branch |-> "feat2", isMain |-> FALSE]

\* `git worktree list`, in discovery order
listWorktrees == <<MainTree, Feat1Tree, Feat2Tree>>

CONFIG_FILE_NAME == ".worktreesync.json"

\* file names in the order of Array.prototype.sort (UTF-16 code units)
SortedNames == <<".env", ".worktreesync.json", "docker-compose.yml">>
Names == {SortedNames[i] : i \in DOMAIN SortedNames}

\* two more paths of the source tree a link may lead to: one exists, one does not
OtherFile == <<"repo", "main", "other.txt">>
GoneFile == <<"repo", "main", "gone.txt">>

TreePaths == {listWorktrees[i].path : i \in DOMAIN listWorktrees}
Paths == TreePaths \cup {Append(t, n) : t \in TreePaths, n \in Names} \cup {OtherFile, GoneFile}

(***************************************************************************)
(* Filesystem entries and the fs calls.                                    *)
(***************************************************************************)
Absent == [kind |-> "absent", text |-> NoText, data |-> ""]
Dir == [kind |-> "dir", text |-> NoText, data |-> ""]
File(data) == [kind |-> "file", text |-> NoText, data |-> data]
Link(text) == [kind |-> "link", text |-> text, data |-> ""]

\* every directory above p exists (Root and what is above it always does)
AncestorsAreDirs(d, p) ==
    \A k \in (Len(Root) + 1)..(Len(p) - 1) :
        LET q == SubSeq(p, 1, k) IN q \in DOMAIN d /\ d[q].kind = "dir"

\* fs.lstatSync: the entry at p itself; "absent" stands for ENOENT
lstatSync(d, p) ==
    IF Len(p) <= Len(Root) THEN Dir
    ELSE IF p \in DOMAIN d /\ AncestorsAreDirs(d, p) THEN d[p]
    ELSE Absent

\* fs.statSync: the entry p leads to, following symbolic links (ELOOP is "absent")
RECURSIVE statSync(_, _, _)
follow(d, p, e, hops) ==
    IF e.kind # "link" THEN e
    ELSE IF hops = 0 THEN Absent
    ELSE statSync(d, resolve(dirname(p), e.text), hops - 1)

statSync(d, p, hops) == follow(d, p, lstatSync(d, p), hops)

\* fs.existsSync follows symbolic links: a dangling link does not "exist"
existsSync(d, p) == statSync(d, p, MaxHops).kind # "absent"

\* fs.readlinkSync
readlinkSync(d, p) == lstatSync(d, p).text

NoError == [operation |-> "", code |-> ""]
FileSystemError(operation, code) == [operation |-> operation, code |-> code]
Ok(d) == [disk |-> d, error |-> NoError]
Fail(d, operation, code) == [disk |-> d, error |-> FileSystemError(operation, code)]

\* fs.unlinkSync on an entry that exists
unlinkSync(d, p) == [d EXCEPT ![p] = Absent]

\* fs.symlinkSync: ENOENT when the directory of p is missing, EEXIST when
\* anything, a dangling link included, is at p
symlinkSync(d, text, p) ==
    IF ~AncestorsAreDirs(d, p) THEN Fail(d, "symlink", "ENOENT")
    ELSE IF lstatSync(d, p).kind # "absent" \/ p \notin DOMAIN d
    THEN Fail(d, "symlink", "EEXIST")
    ELSE Ok([d EXCEPT ![p] = Link(text)])

\* fs.mkdir(dir, {recursive: true}): creates what is missing, top down
RECURSIVE mkdirFrom(_, _, _)
mkdirAt(d, dir, k, q, e) ==
    IF e.kind = "dir" THEN mkdirFrom(d, dir, k + 1)
    ELSE IF e.kind = "absent" /\ q \in DOMAIN d
         THEN mkdirFrom([d EXCEPT ![q] = Dir], dir, k + 1)
    ELSE Fail(d, "mkdir", IF e.kind = "file" THEN "ENOTDIR" ELSE "EEXIST")

mkdirFrom(d, dir, k) ==
    IF k > Len(dir) THEN Ok(d)
    ELSE mkdirAt(d, dir, k, SubSeq(dir, 1, k), lstatSync(d, SubSeq(dir, 1, k)))

\* fs.mkdir creating nothing
mkdirNothing(d, dir) == Ok(d)

mkdir(d, dir) == mkdirFrom(d, dir, Len(Root) + 1)

(***************************************************************************)
(* SymlinkManager.                                                         *)
(***************************************************************************)
\* removeExisting: unlinks a symbolic link, refuses a regular file, and leaves
\* anything else (a directory, nothing at all) as it is
removeByStatsWhateverItIs(d, p, stats) ==
    IF stats.kind # "absent" THEN Ok(unlinkSync(d, p)) ELSE Ok(d)

removeByStats(d, p, stats) ==
    IF stats.kind = "link" THEN Ok(unlinkSync(d, p))
    ELSE IF stats.kind = "file" THEN Fail(d, "removeExisting", "EEXIST")
    ELSE Ok(d)

removeExisting(d, p) == removeByStats(d, p, lstatSync(d, p))

\* the link text createSymlink and createSyncAction compute for a link mode
linkTextFor(sourcePath, targetPath, linkMode) ==
    IF linkMode = "relative" THEN relative(dirname(targetPath), sourcePath)
    ELSE AbsText(sourcePath)

\* the catch of createSymlink: every failure inside is rethrown as a
\* FileSystemError of `operation` with the inner code
rethrowAs(done, operation) ==
    IF done.error # NoError THEN Fail(done.disk, operation, done.error.code) ELSE done

\* createSymlink after its mkdir: remove what exists at the target path (what
\* existsSync sees there), then symlink
linkAfterRemove(cleared, linkPath, targetPath) ==
    IF cleared.error # NoError THEN cleared
    ELSE symlinkSync(cleared.disk, linkPath, targetPath)

linkAfterMkdir(made, linkPath, targetPath) ==
    IF made.error # NoError THEN made
    ELSE linkAfterRemove(IF existsSync(made.disk, targetPath)
                         THEN removeExisting(made.disk, targetPath)
                         ELSE Ok(made.disk),
                         linkPath, targetPath)

\* createSymlink with its two paths exchanged
createSymlinkAtSource(d, sourcePath, targetPath, linkMode) ==
    rethrowAs(linkAfterMkdir(mkdir(d, dirname(sourcePath)),
                             linkTextFor(targetPath, sourcePath, linkMode), sourcePath),
              "createSymlink")

createSymlink(d, sourcePath, targetPath, linkMode) ==
    rethrowAs(linkAfterMkdir(mkdir(d, dirname(targetPath)),
                             linkTextFor(sourcePath, targetPath, linkMode), targetPath),
              "createSymlink")

createDirectorySymlink(d, sourcePath, targetPath, linkMode) ==
    rethrowAs(linkAfterMkdir(mkdir(d, dirname(targetPath)),
                             linkTextFor(sourcePath, targetPath, linkMode), targetPath),
              "createDirectorySymlink")

\* isValidSymlink: p is a symbolic link and what its text names exists
isValidSymlink(d, p) ==
    /\ existsSync(d, p)
    /\ lstatSync(d, p).kind = "link"
    /\ existsSync(d, resolve(dirname(p), readlinkSync(d, p)))

\* the two predicates with the failures of the filesystem: a fault names the fs
\* call that throws and the error code it throws; NoFault is a call that works
NoFault == [call |-> "", code |-> ""]
Fault(call, code) == [call |-> call, code |-> code]
Returned(value) == [value |-> value, thrown |-> ""]
Thrown(code) == [value |-> FALSE, thrown |-> code]

\* a try block with no catch: what is thrown inside leaves the predicate
catchNothing(outcome) == outcome

\* catch { return false }
catchAll(outcome) == IF outcome.thrown # "" THEN Returned(FALSE) ELSE outcome

\* the try block of isValidSymlink
isValidSymlinkTry(d, p, fault) ==
    IF fault.call = "existsSync" THEN Thrown(fault.code)
    ELSE IF ~existsSync(d, p) THEN Returned(FALSE)
    ELSE IF fault.call = "lstatSync" THEN Thrown(fault.code)
    ELSE IF lstatSync(d, p).kind # "link" THEN Returned(FALSE)
    ELSE IF fault.call = "readlinkSync" THEN Thrown(fault.code)
    ELSE Returned(existsSync(d, resolve(dirname(p), readlinkSync(d, p))))

isValidSymlinkWith(d, p, fault) == catchAll(isValidSymlinkTry(d, p, fault))

\* isSymlinkPointingTo resolving the link text from the root, not from the
\* directory of the link
isSymlinkPointingToFromRoot(d, linkPath, expectedTarget, fault) ==
    IF fault # NoFault THEN Returned(FALSE)
    ELSE Returned(/\ existsSync(d, linkPath)
                  /\ lstatSync(d, linkPath).kind = "link"
                  /\ resolve(<<>>, readlinkSync(d, linkPath))
                       = resolve(<<>>, AbsText(expectedTarget)))

\* the try block of isSymlinkPointingTo
isSymlinkPointingToTry(d, linkPath, expectedTarget, fault) ==
    IF fault.call = "existsSync" THEN Thrown(fault.code)
    ELSE IF ~existsSync(d, linkPath) THEN Returned(FALSE)
    ELSE IF fault.call = "lstatSync" THEN Thrown(fault.code)
    ELSE IF lstatSync(d, linkPath).kind # "link" THEN Returned(FALSE)
    ELSE IF fault.call = "readlinkSync" THEN Thrown(fault.code)
    ELSE Returned(resolve(dirname(linkPath), readlinkSync(d, linkPath))
                    = resolve(<<>>, AbsText(expectedTarget)))

isSymlinkPointingToWith(d, linkPath, expectedTarget, fault) ==
    catchAll(isSymlinkPointingToTry(d, linkPath, expectedTarget, fault))

\* isSymlinkPointingTo comparing the link text as written, nothing resolved
isSymlinkPointingToUnresolved(d, linkPath, expectedTarget) ==
    /\ existsSync(d, linkPath)
    /\ lstatSync(d, linkPath).kind = "link"
    /\ readlinkSync(d, linkPath) = AbsText(expectedTarget)

\* isSymlinkPointingTo: p is a symbolic link whose text, resolved in p's
\* directory, is the resolved expected path
isSymlinkPointingTo(d, linkPath, expectedTarget) ==
    /\ existsSync(d, linkPath)
    /\ lstatSync(d, linkPath).kind = "link"
    /\ resolve(dirname(linkPath), readlinkSync(d, linkPath))
         = resolve(<<>>, AbsText(expectedTarget))

\* createSyncAction deciding a plain entry without reading the overwrite flag
decideActionIgnoringOverwrite(d, sourcePath, targetPath, overwrite) ==
    IF ~existsSync(d, sourcePath) THEN <<"skip", "source missing">>
    ELSE IF existsSync(d, targetPath)
    THEN IF lstatSync(d, targetPath).kind = "link"
         THEN IF isSymlinkPointingTo(d, targetPath, sourcePath)
              THEN <<"skip", "already correct">>
              ELSE <<"update", "points elsewhere">>
         ELSE <<"skip", "exists, overwrite disabled">>
    ELSE <<"create", "creating">>

\* the decision of createSyncAction: the kind of action and its reason
decideAction(d, sourcePath, targetPath, overwrite) ==
    IF ~existsSync(d, sourcePath) THEN <<"skip", "source missing">>
    ELSE IF existsSync(d, targetPath)
    THEN IF lstatSync(d, targetPath).kind = "link"
         THEN IF isSymlinkPointingTo(d, targetPath, sourcePath)
              THEN <<"skip", "already correct">>
              ELSE <<"update", "points elsewhere">>
         ELSE IF ~overwrite THEN <<"skip", "exists, overwrite disabled">>
              ELSE <<"update", "overwriting">>
    ELSE <<"create", "creating">>

SyncAction(targetWorktree, file, sourcePath, targetPath, linkPath, decision) ==
    [targetWorktree |-> targetWorktree.path,
     file |-> file,
     sourcePath |-> sourcePath,
     targetPath |-> targetPath,
     linkPath |-> IF decision[2] = "source missing" THEN NoText ELSE linkPath,
     action |-> decision[1],
     reason |-> decision[2],
     isDirectory |-> FALSE]

\* createSyncAction: the action planned for one (target tree, file) pair
createSyncAction(d, sourceWorktree, targetWorktree, relativeFilePath, linkMode, overwrite) ==
    SyncAction(targetWorktree, relativeFilePath,
               join(sourceWorktree.path, <<relativeFilePath>>),
               join(targetWorktree.path, <<relativeFilePath>>),
               linkTextFor(join(sourceWorktree.path, <<relativeFilePath>>),
                           join(targetWorktree.path, <<relativeFilePath>>), linkMode),
               decideAction(d, join(sourceWorktree.path, <<relativeFilePath>>),
                            join(targetWorktree.path, <<relativeFilePath>>), overwrite))

\* executeAction removing whatever is at the target path of an update, whatever
\* the overwrite flag
removeForUpdateForced(d, action, overwrite) ==
    IF action.action = "update" /\ lstatSync(d, action.targetPath).kind # "absent"
    THEN Ok(unlinkSync(d, action.targetPath))
    ELSE Ok(d)

\* the removal executeAction makes before an update: a conflict when overwrite is
\* disabled and the target path exists
removeForUpdate(d, action, overwrite) ==
    IF action.action = "update" /\ existsSync(d, action.targetPath)
    THEN IF overwrite THEN removeExisting(d, action.targetPath)
         ELSE Fail(d, "executeAction", "EEXIST")
    ELSE Ok(d)

\* executeAction taking every link text for a relative one
linkModeAlwaysRelative(linkPath) == "relative"

\* the link mode executeAction reads off the action's link text
linkModeOf(linkPath) == IF isAbsoluteText(linkPath) THEN "absolute" ELSE "relative"

createAfterRemove(removed, action) ==
    IF removed.error # NoError THEN removed
    ELSE IF action.isDirectory
         THEN createDirectorySymlink(removed.disk, action.sourcePath, action.targetPath,
                                     linkModeOf(action.linkPath))
         ELSE createSymlink(removed.disk, action.sourcePath, action.targetPath,
                            linkModeOf(action.linkPath))

\* executeAction: applies one action; the result is the new disk and the
\* FileSystemError thrown, if any
executeAction(d, action, overwrite) ==
    IF action.action = "skip" THEN Ok(d)
    ELSE createAfterRemove(removeForUpdate(d, action, overwrite), action)

\* one iteration of removeSymlinks: a path that does not exist (a dangling link
\* included) or is not a symbolic link is passed over
Removal(d, removed, errors) == [disk |-> d, removed |-> removed, errors |-> errors]

\* the iteration of removeSymlinks without the isSymbolicLink test
removeWhateverExists(done, filePath, file, dryRun) ==
    IF ~existsSync(done.disk, filePath) THEN done
    ELSE Removal(IF dryRun THEN done.disk ELSE unlinkSync(done.disk, filePath),
                 Append(done.removed, file), done.errors)

\* the iteration of removeSymlinks unlinking in preview mode as well
removeSymlinkEvenInPreview(done, filePath, file, dryRun) ==
    IF ~existsSync(done.disk, filePath) THEN done
    ELSE IF lstatSync(done.disk, filePath).kind # "link" THEN done
    ELSE Removal(unlinkSync(done.disk, filePath), Append(done.removed, file), done.errors)

removeSymlink(done, filePath, file, dryRun) ==
    IF ~existsSync(done.disk, filePath) THEN done
    ELSE IF lstatSync(done.disk, filePath).kind # "link" THEN done
    ELSE Removal(IF dryRun THEN done.disk ELSE unlinkSync(done.disk, filePath),
                 Append(done.removed, file), done.errors)

RECURSIVE removeSymlinksIn(_, _, _, _)
removeSymlinksIn(done, worktree, files, dryRun) ==
    IF files = <<>> THEN done
    ELSE removeSymlinksIn(removeSymlink(done, join(worktree.path, <<Head(files)>>),
                                        Head(files), dryRun),
                          worktree, Tail(files), dryRun)

RECURSIVE removeSymlinksFrom(_, _, _, _)
removeSymlinksFrom(done, worktrees, files, dryRun) ==
    IF worktrees = <<>> THEN done
    ELSE removeSymlinksFrom(removeSymlinksIn(done, Head(worktrees), files, dryRun),
                            Tail(worktrees), files, dryRun)

\* removeSymlinks: the symbolic links at the files' paths in the given trees
removeSymlinks(d, worktrees, files, dryRun) ==
    removeSymlinksFrom(Removal(d, <<>>, <<>>), worktrees, files, dryRun)

\* validateSymlinks testing the path with existsSync, which follows links
statusOfPathFollowingLinks(d, filePath) ==
    IF ~existsSync(d, filePath) THEN "missing"
    ELSE IF lstatSync(d, filePath).kind # "link" THEN "valid"
    ELSE IF isValidSymlink(d, filePath) THEN "valid"
    ELSE "broken"

\* the list validateSymlinks puts the file of a path in
statusOfPath(d, filePath) ==
    IF lstatSync(d, filePath).kind = "absent" THEN "missing"
    ELSE IF lstatSync(d, filePath).kind # "link" THEN "valid"
    ELSE IF isValidSymlink(d, filePath) THEN "valid"
    ELSE "broken"

\* validateSymlinks
validateSymlinks(d, worktree, files) ==
    [valid |-> SelectSeq(files, LAMBDA file :
                   statusOfPath(d, join(worktree.path, <<file>>)) = "valid"),
     broken |-> SelectSeq(files, LAMBDA file :
                   statusOfPath(d, join(worktree.path, <<file>>)) = "broken"),
     missing |-> SelectSeq(files, LAMBDA file :
                   statusOfPath(d, join(worktree.path, <<file>>)) = "missing")]

(***************************************************************************)
(* WorktreeManager.                                                        *)
(***************************************************************************)
\* the first element of a sequence that satisfies Test, as a set of at most one
FirstWhere(seq, Test(_)) ==
    LET hits == {i \in DOMAIN seq : Test(seq[i])}
    IN  IF hits = {} THEN {} ELSE {seq[CHOOSE i \in hits : \A j \in hits : i <= j]}

\* the selectors of the model read as paths: absolute or not, and their segments
SelectorText ==
    [name \in {"main", "feat1", "feat2", "nosuch"} |-> RelText(<<name>>)]
    @@ ("../feat1" :> RelText(<<"..", "feat1">>))
    @@ ("./feat2" :> RelText(<<".", "feat2">>))
    @@ ("/repo/feat2" :> AbsText(<<"repo", "feat2">>))

\* path.isAbsolute(name)
isAbsolute(name) == SelectorText[name].abs
\* name.includes('/') || name.startsWith('.')
looksLikePath(name) ==
    \/ SelectorText[name].abs
    \/ Len(SelectorText[name].segs) > 1
    \/ Head(SelectorText[name].segs) \in {".", ".."}

Has(worktrees, Test(_)) == \E i \in DOMAIN worktrees : Test(worktrees[i])

\* getSourceWorktree with no fallback to the main tree
getSourceWorktreeWithoutFallback(worktrees, repositoryRoot, sourceWorktreeName) ==
    IF Has(worktrees, LAMBDA wt : wt.branch = sourceWorktreeName)
    THEN FirstWhere(worktrees, LAMBDA wt : wt.branch = sourceWorktreeName)
    ELSE IF /\ isAbsolute(sourceWorktreeName)
            /\ Has(worktrees, LAMBDA wt : wt.path = SelectorText[sourceWorktreeName].segs)
    THEN FirstWhere(worktrees, LAMBDA wt : wt.path = SelectorText[sourceWorktreeName].segs)
    ELSE IF /\ looksLikePath(sourceWorktreeName)
            /\ Has(worktrees, LAMBDA wt :
                     wt.path = resolve(repositoryRoot, SelectorText[sourceWorktreeName]))
    THEN FirstWhere(worktrees, LAMBDA wt :
             wt.path = resolve(repositoryRoot, SelectorText[sourceWorktreeName]))
    ELSE IF /\ looksLikePath(sourceWorktreeName)
            /\ Has(worktrees, LAMBDA wt :
                     wt.path = resolve(dirname(repositoryRoot), SelectorText[sourceWorktreeName]))
    THEN FirstWhere(worktrees, LAMBDA wt :
             wt.path = resolve(dirname(repositoryRoot), SelectorText[sourceWorktreeName]))
    ELSE FirstWhere(worktrees, LAMBDA wt : basename(wt.path) = sourceWorktreeName)

\* getSourceWorktree trying the directory name before the branch name
getSourceWorktreeByNameFirst(worktrees, repositoryRoot, sourceWorktreeName) ==
    IF Has(worktrees, LAMBDA wt : basename(wt.path) = sourceWorktreeName)
    THEN FirstWhere(worktrees, LAMBDA wt : basename(wt.path) = sourceWorktreeName)
    ELSE IF Has(worktrees, LAMBDA wt : wt.branch = sourceWorktreeName)
    THEN FirstWhere(worktrees, LAMBDA wt : wt.branch = sourceWorktreeName)
    ELSE IF /\ isAbsolute(sourceWorktreeName)
            /\ Has(worktrees, LAMBDA wt : wt.path = SelectorText[sourceWorktreeName].segs)
    THEN FirstWhere(worktrees, LAMBDA wt : wt.path = SelectorText[sourceWorktreeName].segs)
    ELSE IF /\ looksLikePath(sourceWorktreeName)
            /\ Has(worktrees, LAMBDA wt :
                     wt.path = resolve(repositoryRoot, SelectorText[sourceWorktreeName]))
    THEN FirstWhere(worktrees, LAMBDA wt :
             wt.path = resolve(repositoryRoot, SelectorText[sourceWorktreeName]))
    ELSE IF /\ looksLikePath(sourceWorktreeName)
            /\ Has(worktrees, LAMBDA wt :
                     wt.path = resolve(dirname(repositoryRoot), SelectorText[sourceWorktreeName]))
    THEN FirstWhere(worktrees, LAMBDA wt :
             wt.path = resolve(dirname(repositoryRoot), SelectorText[sourceWorktreeName]))
    ELSE FirstWhere(worktrees, LAMBDA wt : wt.isMain)

\* getSourceWorktree on a list of trees: by branch name, by absolute path, by
\* relative path (from the repository root, then from its parent), by directory
\* name, and at last the main tree; the empty set stands for the error thrown
getSourceWorktreeIn(worktrees, repositoryRoot, sourceWorktreeName) ==
    IF Has(worktrees, LAMBDA wt : wt.branch = sourceWorktreeName)
    THEN FirstWhere(worktrees, LAMBDA wt : wt.branch = sourceWorktreeName)
    ELSE IF /\ isAbsolute(sourceWorktreeName)
            /\ Has(worktrees, LAMBDA wt : wt.path = SelectorText[sourceWorktreeName].segs)
    THEN FirstWhere(worktrees, LAMBDA wt : wt.path = SelectorText[sourceWorktreeName].segs)
    ELSE IF /\ looksLikePath(sourceWorktreeName)
            /\ Has(worktrees, LAMBDA wt :
                     wt.path = resolve(repositoryRoot, SelectorText[sourceWorktreeName]))
    THEN FirstWhere(worktrees, LAMBDA wt :
             wt.path = resolve(repositoryRoot, SelectorText[sourceWorktreeName]))
    ELSE IF /\ looksLikePath(sourceWorktreeName)
            /\ Has(worktrees, LAMBDA wt :
                     wt.path = resolve(dirname(repositoryRoot), SelectorText[sourceWorktreeName]))
    THEN FirstWhere(worktrees, LAMBDA wt :
             wt.path = resolve(dirname(repositoryRoot), SelectorText[sourceWorktreeName]))
    ELSE IF Has(worktrees, LAMBDA wt : basename(wt.path) = sourceWorktreeName)
    THEN FirstWhere(worktrees, LAMBDA wt : basename(wt.path) = sourceWorktreeName)
    ELSE FirstWhere(worktrees, LAMBDA wt : wt.isMain)

\* getSourceWorktree on the trees git lists, the command running in the main tree
getSourceWorktree(sourceWorktreeName) ==
    getSourceWorktreeIn(listWorktrees, MainTree.path, sourceWorktreeName)

\* getTargetWorktrees keeping the source tree in the list
getTargetWorktreesWithSource(sourceWorktree) == listWorktrees

\* getTargetWorktrees: every listed tree whose path is not the source's
getTargetWorktrees(sourceWorktree) ==
    SelectSeq(listWorktrees, LAMBDA wt : wt.path # sourceWorktree.path)

\* validateWorktreeAccess: the tree's path exists
validateWorktreeAccess(d, worktree) == existsSync(d, worktree.path)

(***************************************************************************)
(* SyncPlanner.                                                            *)
(***************************************************************************)
\* a pattern is a literal name or "*"; `dot` is the glob option of that name
Matches(pattern, name, dot) ==
    \/ pattern = name
    \/ pattern = "*" /\ (dot \/ name \notin {".env", ".worktreesync.json"})

\* a set of names as a sequence in sort() order
RECURSIVE SortedFrom(_, _)
SortedFrom(names, i) ==
    IF i > Len(SortedNames) THEN <<>>
    ELSE (IF SortedNames[i] \in names THEN <<SortedNames[i]>> ELSE <<>>)
         \o SortedFrom(names, i + 1)

Sorted(names) == SortedFrom(names, 1)

Range(seq) == {seq[i] : i \in DOMAIN seq}

\* glob(pattern, {cwd, nodir: true, dot: true}): the files of the tree that match
glob(d, pattern, cwd) ==
    Sorted({n \in Names : /\ Matches(pattern, n, TRUE)
                          /\ statSync(d, join(cwd, <<n>>), MaxHops).kind = "file"})

\* allFiles: the results of the globs, one pattern after the other
RECURSIVE globAll(_, _, _)
globAll(d, patterns, cwd) ==
    IF patterns = <<>> THEN <<>>
    ELSE glob(d, Head(patterns), cwd) \o globAll(d, Tail(patterns), cwd)

\* [...new Set(allFiles)] keeping every occurrence
uniqueKeepingAll(files) == files

\* [...new Set(allFiles)]: the first occurrence of every file, in order
appendIfNew(files, file) == IF file \in Range(files) THEN files ELSE Append(files, file)
RECURSIVE unique(_)
unique(files) ==
    IF files = <<>> THEN <<>>
    ELSE appendIfNew(unique(SubSeq(files, 1, Len(files) - 1)), files[Len(files)])

\* Array.prototype.sort on a list of file names (equal names stay, side by side)
RECURSIVE sortFrom(_, _)
sortFrom(files, i) ==
    IF i > Len(SortedNames) THEN <<>>
    ELSE SelectSeq(files, LAMBDA file : file = SortedNames[i]) \o sortFrom(files, i + 1)

sort(files) == sortFrom(files, 1)

\* resolveFilePatterns: the results of the globs without duplicates and without
\* what an ignore pattern matches (minimatch, default options), sorted
resolveFilePatterns(d, sourceWorktree, patterns, ignorePatterns) ==
    sort(SelectSeq(unique(globAll(d, patterns, sourceWorktree.path)),
                   LAMBDA file : ~\E ignorePattern \in Range(ignorePatterns) :
                                     Matches(ignorePattern, file, FALSE)))

\* ensureConfigFileIncluded adding nothing
ensureConfigFileIncludedNever(files) == files

\* ensureConfigFileIncluded: the configuration file is put first when it is missing
ensureConfigFileIncluded(files) ==
    IF CONFIG_FILE_NAME \in Range(files) THEN files ELSE <<CONFIG_FILE_NAME>> \o files

\* the actions of one target tree, file by file
RECURSIVE actionsFor(_, _, _, _, _, _)
actionsFor(d, sourceWorktree, targetWorktree, files, linkMode, overwrite) ==
    IF files = <<>> THEN <<>>
    ELSE <<createSyncAction(d, sourceWorktree, targetWorktree, Head(files), linkMode, overwrite)>>
         \o actionsFor(d, sourceWorktree, targetWorktree, Tail(files), linkMode, overwrite)

RECURSIVE actionsForAll(_, _, _, _, _, _)
actionsForAll(d, sourceWorktree, targetWorktrees, files, linkMode, overwrite) ==
    IF targetWorktrees = <<>> THEN <<>>
    ELSE actionsFor(d, sourceWorktree, Head(targetWorktrees), files, linkMode, overwrite)
         \o actionsForAll(d, sourceWorktree, Tail(targetWorktrees), files, linkMode, overwrite)

\* the selective-sync argument: file patterns that replace the configured ones
\* (when given, an empty list included) and a name that filters the target trees
SelectiveSync(given, filePatterns, worktreeName) ==
    [given |-> given, filePatterns |-> filePatterns, worktreeName |-> worktreeName]
NoSelectiveSync == SelectiveSync(FALSE, <<>>, "")

\* String.prototype.includes on a path, for the names of the model: the names
\* that occur inside each path segment
NamesWithin ==
    [s \in {"repo", "main", "feat1", "feat2"} |->
        {s} \cup (IF s \in {"feat1", "feat2"} THEN {"feat"} ELSE {})]
includes(path, name) == \E i \in DOMAIN path : name \in NamesWithin[path[i]]

\* the worktree filter of createSyncPlan: by branch, or by a name inside the path
filterTargetWorktrees(targetWorktrees, selectiveSync) ==
    IF selectiveSync.worktreeName = "" THEN targetWorktrees
    ELSE SelectSeq(targetWorktrees,
                   LAMBDA worktree : \/ worktree.branch = selectiveSync.worktreeName
                                     \/ includes(worktree.path, selectiveSync.worktreeName))

\* selectiveSync?.filePatterns || config.sharedFiles
filePatternsOf(cfg, selectiveSync) ==
    IF selectiveSync.given THEN selectiveSync.filePatterns ELSE cfg.sharedFiles

\* finalFiles without the forced configuration file
finalFilesAsResolved(d, cfg, selectiveSync, sourceWorktree) ==
    resolveFilePatterns(d, sourceWorktree, filePatternsOf(cfg, selectiveSync), cfg.ignore)

\* finalFiles of createSyncPlan: the files the actions are made for
finalFiles(d, cfg, selectiveSync, sourceWorktree) ==
    ensureConfigFileIncluded(
        resolveFilePatterns(d, sourceWorktree, filePatternsOf(cfg, selectiveSync), cfg.ignore))

SyncPlan(d, cfg, sourceWorktree, targetWorktrees, files) ==
    [sourceWorktree |-> sourceWorktree,
     targetWorktrees |-> targetWorktrees,
     syncActions |->
        actionsForAll(d, sourceWorktree, targetWorktrees, files, cfg.linkMode, cfg.overwrite)]

\* createSyncPlan, once the source tree is known
planFrom(d, cfg, selectiveSync, sourceWorktree) ==
    SyncPlan(d, cfg, sourceWorktree,
             filterTargetWorktrees(getTargetWorktrees(sourceWorktree), selectiveSync),
             finalFiles(d, cfg, selectiveSync, sourceWorktree))

createSyncPlan(d, cfg, selectiveSync) ==
    planFrom(d, cfg, selectiveSync, CHOOSE wt \in getSourceWorktree(cfg.sourceWorktree) : TRUE)

\* validatePlan: an inaccessible source tree is an error, an inaccessible target
\* tree a warning
validatePlan(d, plan) ==
    [valid |-> validateWorktreeAccess(d, plan.sourceWorktree),
     errors |-> IF validateWorktreeAccess(d, plan.sourceWorktree) THEN <<>>
                ELSE <<"source not accessible">>,
     warnings |-> SelectSeq(plan.targetWorktrees,
                            LAMBDA wt : ~validateWorktreeAccess(d, wt))]

(***************************************************************************)
(* SyncEngine.                                                             *)
(***************************************************************************)
NoResult == [success |-> FALSE, created |-> 0, updated |-> 0, skipped |-> 0, errors |-> <<>>]

\* updateResultCounts
updateResultCounts(action, result) ==
    IF action = "create" THEN [result EXCEPT !.created = @ + 1]
    ELSE IF action = "update" THEN [result EXCEPT !.updated = @ + 1]
    ELSE IF action = "skip" THEN [result EXCEPT !.skipped = @ + 1]
    ELSE result

\* the error executePlan records for an action that threw
SyncError(action, error) ==
    [file |-> action.file, worktree |-> action.targetWorktree, code |-> error.code]

\* one iteration of executePlan's loop.  `run` carries the disk, the result and
\* the indices of the actions executeAction was called for
recordOutcomeCountingFailures(run, action, i, done) ==
    [disk |-> done.disk,
     result |-> IF done.error = NoError
                THEN updateResultCounts(action.action, run.result)
                ELSE updateResultCounts(action.action,
                        [run.result EXCEPT !.errors = Append(@, SyncError(action, done.error))]),
     attempted |-> Append(run.attempted, i)]

recordOutcome(run, action, i, done) ==
    [disk |-> done.disk,
     result |-> IF done.error = NoError
                THEN updateResultCounts(action.action, run.result)
                ELSE [run.result EXCEPT !.errors = Append(@, SyncError(action, done.error))],
     attempted |-> Append(run.attempted, i)]

executeOne(run, action, i, overwrite, dryRun) ==
    IF dryRun
    THEN [run EXCEPT !.result = updateResultCounts(action.action, @)]
    ELSE recordOutcome(run, action, i, executeAction(run.disk, action, overwrite))

\* executePlan: every action of the plan, in order
RECURSIVE executeFrom(_, _, _, _, _)
executeFrom(run, syncActions, i, overwrite, dryRun) ==
    IF i > Len(syncActions) THEN run
    ELSE executeFrom(executeOne(run, syncActions[i], i, overwrite, dryRun),
                     syncActions, i + 1, overwrite, dryRun)

\* executePlan leaving its loop at the first action that throws
RECURSIVE executeUntilError(_, _, _, _, _)
executeUntilError(run, syncActions, i, overwrite, dryRun) ==
    IF i > Len(syncActions) \/ run.result.errors # <<>> THEN run
    ELSE executeUntilError(executeOne(run, syncActions[i], i, overwrite, dryRun),
                           syncActions, i + 1, overwrite, dryRun)

executePlanStoppingAtError(d, plan, overwrite, dryRun, result) ==
    executeUntilError([disk |-> d, result |-> result, attempted |-> <<>>],
                      plan.syncActions, 1, overwrite, dryRun)

executePlan(d, plan, overwrite, dryRun, result) ==
    executeFrom([disk |-> d, result |-> result, attempted |-> <<>>],
                plan.syncActions, 1, overwrite, dryRun)

\* scanExistingSymlinks: the symbolic links found in the tree's directory, sorted
scanExistingSymlinks(d, worktree) ==
    Sorted({n \in Names : lstatSync(d, join(worktree.path, <<n>>)).kind = "link"})

\* plan.syncActions.map(action => action.file)
actionFiles(syncActions) == [i \in DOMAIN syncActions |-> syncActions[i].file]

\* checkStatus looking at the planned files only
statusFromPlanOnly(d, plan) ==
    [sourceWorktree |-> plan.sourceWorktree.path,
     targetWorktrees |-> [i \in DOMAIN plan.targetWorktrees |-> plan.targetWorktrees[i].path],
     syncedFiles |->
        [i \in DOMAIN plan.targetWorktrees |->
            validateSymlinks(d, plan.targetWorktrees[i],
                             unique(actionFiles(plan.syncActions)))]]

\* checkStatus, once the plan is made: for every target tree the status of the
\* planned files and of the links found in the tree
statusFrom(d, plan) ==
    [sourceWorktree |-> plan.sourceWorktree.path,
     targetWorktrees |-> [i \in DOMAIN plan.targetWorktrees |-> plan.targetWorktrees[i].path],
     syncedFiles |->
        [i \in DOMAIN plan.targetWorktrees |->
            validateSymlinks(d, plan.targetWorktrees[i],
                unique(unique(actionFiles(plan.syncActions))
                       \o scanExistingSymlinks(d, plan.targetWorktrees[i])))]]

checkStatus(d, cfg) == statusFrom(d, createSyncPlan(d, cfg, NoSelectiveSync))

\* checkMissingFiles: the patterns of sharedFiles nothing of the source tree answers
isGlobPattern(pattern) == pattern = "*"
patternIsMissing(d, pattern, sourceWorktree) ==
    IF ~isGlobPattern(pattern)
    THEN ~existsSync(d, join(sourceWorktree.path, <<pattern>>))
    ELSE glob(d, pattern, sourceWorktree.path) = <<>>
checkMissingFiles(d, cfg, sourceWorktree) ==
    SelectSeq(cfg.sharedFiles, LAMBDA pattern : patternIsMissing(d, pattern, sourceWorktree))

\* brokenSymlinks: the broken lists of validateSymlinks, one target tree after the other
RECURSIVE brokenIn(_, _, _)
brokenIn(d, targetWorktrees, files) ==
    IF targetWorktrees = <<>> THEN <<>>
    ELSE validateSymlinks(d, Head(targetWorktrees), files).broken
         \o brokenIn(d, Tail(targetWorktrees), files)

lineIf(condition, line) == IF condition THEN <<line>> ELSE <<>>
linePerFile(files) == [i \in DOMAIN files |-> <<"missing", files[i]>>]

\* the recommendations with one line for the missing files, however many
recommendationsOnePerCategory(result) ==
    lineIf(~result.configValid, <<"config">>)
    \o lineIf(~result.sourceWorktreeExists, <<"source">>)
    \o lineIf(~result.targetWorktreesAccessible, <<"targets">>)
    \o lineIf(result.missingFiles # <<>>, <<"missing">>)
    \o lineIf(result.brokenSymlinks # <<>>, <<"clean">>)
    \o lineIf(result.permissionIssues # <<>>, <<"permissions">>)

\* "Generate recommendations": a line for each flag that is down, a line for every
\* missing file, a line when a link is broken, a line when a permission error is listed
recommendationsFor(result) ==
    lineIf(~result.configValid, <<"config">>)
    \o lineIf(~result.sourceWorktreeExists, <<"source">>)
    \o lineIf(~result.targetWorktreesAccessible, <<"targets">>)
    \o linePerFile(result.missingFiles)
    \o lineIf(result.brokenSymlinks # <<>>, <<"clean">>)
    \o lineIf(result.permissionIssues # <<>>, <<"permissions">>)

DoctorResult(configValid, missingFiles, brokenSymlinks) ==
    [configValid |-> configValid,
     sourceWorktreeExists |-> TRUE,
     targetWorktreesAccessible |-> TRUE,
     missingFiles |-> missingFiles,
     brokenSymlinks |-> brokenSymlinks,
     permissionIssues |-> <<>>]

withRecommendations(result) ==
    [configValid |-> result.configValid,
     sourceWorktreeExists |-> result.sourceWorktreeExists,
     targetWorktreesAccessible |-> result.targetWorktreesAccessible,
     missingFiles |-> result.missingFiles,
     brokenSymlinks |-> result.brokenSymlinks,
     permissionIssues |-> result.permissionIssues,
     recommendations |-> recommendationsFor(result)]

\* doctor, once the plan is made.  plan.sourceWorktree is never undefined, and
\* validateSymlinks catches what lstatSync throws, so the two flags stay up
doctorFrom(d, cfg, plan) ==
    withRecommendations(
        DoctorResult(TRUE, checkMissingFiles(d, cfg, plan.sourceWorktree),
                     brokenIn(d, plan.targetWorktrees, unique(actionFiles(plan.syncActions)))))

\* doctor: createSyncPlan throws when `git worktree list` names no source tree
doctor(d, cfg, worktrees) ==
    IF getSourceWorktreeIn(worktrees, MainTree.path, cfg.sourceWorktree) = {}
    THEN withRecommendations(DoctorResult(FALSE, <<>>, <<>>))
    ELSE doctorFrom(d, cfg, createSyncPlan(d, cfg, NoSelectiveSync))

\* unlinkSymlinks, once the plan is made: every target tree when called in the
\* source tree, otherwise the target tree it is called in
unlinkMode(plan, currentPath) ==
    IF currentPath = plan.sourceWorktree.path THEN "all" ELSE "current"

UnlinkResult(done, mode) ==
    [disk |-> done.disk, removed |-> done.removed, errors |-> done.errors, mode |-> mode]

unlinkFrom(d, plan, dryRun, currentPath) ==
    UnlinkResult(
        removeSymlinks(d,
                       IF currentPath = plan.sourceWorktree.path THEN plan.targetWorktrees
                       ELSE SelectSeq(plan.targetWorktrees, LAMBDA wt : wt.path = currentPath),
                       unique(actionFiles(plan.syncActions)), dryRun),
        unlinkMode(plan, currentPath))

unlinkSymlinks(d, cfg, dryRun, currentPath) ==
    unlinkFrom(d, createSyncPlan(d, cfg, NoSelectiveSync), dryRun, currentPath)

\* one iteration of cleanBrokenLinks: unlinkSync throws when nothing is at the path
Cleaning(d, cleaned, errors) == [disk |-> d, cleaned |-> cleaned, errors |-> errors]

\* the iteration of cleanBrokenLinks that lists the link and leaves it
cleanOneListingOnly(done, worktreePath, brokenFile, dryRun) ==
    Cleaning(done.disk, Append(done.cleaned, <<worktreePath, brokenFile>>), done.errors)

cleanOne(done, worktreePath, brokenFile, dryRun) ==
    IF dryRun
    THEN Cleaning(done.disk, Append(done.cleaned, <<worktreePath, brokenFile>>), done.errors)
    ELSE IF lstatSync(done.disk, join(worktreePath, <<brokenFile>>)).kind = "absent"
    THEN Cleaning(done.disk, done.cleaned,
                  Append(done.errors, [file |-> brokenFile, worktree |-> worktreePath,
                                       code |-> "CLEAN_ERROR"]))
    ELSE Cleaning(unlinkSync(done.disk, join(worktreePath, <<brokenFile>>)),
                  Append(done.cleaned, <<worktreePath, brokenFile>>), done.errors)

RECURSIVE cleanIn(_, _, _, _)
cleanIn(done, worktreePath, brokenFiles, dryRun) ==
    IF brokenFiles = <<>> THEN done
    ELSE cleanIn(cleanOne(done, worktreePath, Head(brokenFiles), dryRun),
                 worktreePath, Tail(brokenFiles), dryRun)

RECURSIVE cleanFrom(_, _, _, _)
cleanFrom(done, status, i, dryRun) ==
    IF i > Len(status.targetWorktrees) THEN done
    ELSE cleanFrom(cleanIn(done, status.targetWorktrees[i], status.syncedFiles[i].broken, dryRun),
                   status, i + 1, dryRun)

\* cleanBrokenLinks: unlinks what checkStatus reports broken
cleanBrokenLinks(d, cfg, dryRun) ==
    cleanFrom(Cleaning(d, <<>>, <<>>), checkStatus(d, cfg), 1, dryRun)

\* a hook is a shell command: "" is no hook, "ok" a command that exits 0 and
\* "fail" one that does not.  executeHook throws when the command fails
hookRuns(command, dryRun) == command # "" /\ ~dryRun
\* executeHook swallowing the failure of the command
hookThrowsNever(command) == FALSE
hookThrows(command) == command = "fail"

SyncFailure(result, code) ==
    [result EXCEPT !.errors = Append(@, [file |-> "", worktree |-> "", code |-> code])]

\* the record of one invocation: what it was given, the steps it took in the
\* order it took them, the plan it made, the actions it applied and what it returned
Run(d, dryRun, steps, syncActions, valid, attempted, result, after) ==
    [dryRun |-> dryRun, before |-> d, steps |-> steps, plan |-> syncActions,
     valid |-> valid, attempted |-> attempted, result |-> result, after |-> after]

\* sync reporting success whatever the error list holds
syncAfterExecuteAlwaysSucceeding(d, cfg, dryRun, steps, plan, run) ==
    Run(d, dryRun, steps \o <<"execute">>, plan.syncActions, TRUE,
        run.attempted, [run.result EXCEPT !.success = TRUE], run.disk)

\* sync after executePlan: the afterSync hook, then success
syncAfterExecute(d, cfg, dryRun, steps, plan, run) ==
    IF hookRuns(cfg.hooks.afterSync, dryRun)
    THEN IF hookThrows(cfg.hooks.afterSync)
         THEN Run(d, dryRun, steps \o <<"execute", "afterSync">>, plan.syncActions, TRUE,
                  run.attempted, SyncFailure(run.result, "SYNC_ERROR"), run.disk)
         ELSE Run(d, dryRun, steps \o <<"execute", "afterSync">>, plan.syncActions, TRUE,
                  run.attempted, [run.result EXCEPT !.success = run.result.errors = <<>>],
                  run.disk)
    ELSE Run(d, dryRun, steps \o <<"execute">>, plan.syncActions, TRUE,
             run.attempted, [run.result EXCEPT !.success = run.result.errors = <<>>],
             run.disk)

\* sync after validatePlan: the validation gate, then executePlan
syncAfterValidate(d, cfg, dryRun, steps, plan, validation) ==
    IF ~validation.valid
    THEN Run(d, dryRun, steps \o <<"validate">>, plan.syncActions, FALSE, <<>>,
             SyncFailure(NoResult, "VALIDATION_ERROR"), d)
    ELSE syncAfterExecute(d, cfg, dryRun, steps \o <<"validate">>, plan,
                          executePlan(d, plan, cfg.overwrite, dryRun, NoResult))

\* sync after the beforeSync hook: createSyncPlan, then validatePlan
syncAfterPlan(d, cfg, dryRun, steps, plan) ==
    syncAfterValidate(d, cfg, dryRun, steps \o <<"plan">>, plan, validatePlan(d, plan))

\* sync: the beforeSync hook first, then the rest
sync(d, cfg, dryRun, selectiveSync) ==
    IF hookRuns(cfg.hooks.beforeSync, dryRun)
    THEN IF hookThrows(cfg.hooks.beforeSync)
         THEN Run(d, dryRun, <<"beforeSync">>, <<>>, FALSE, <<>>,
                  SyncFailure(NoResult, "SYNC_ERROR"), d)
         ELSE syncAfterPlan(d, cfg, dryRun, <<"beforeSync">>,
                            createSyncPlan(d, cfg, selectiveSync))
    ELSE syncAfterPlan(d, cfg, dryRun, <<>>, createSyncPlan(d, cfg, selectiveSync))

(***************************************************************************)
(* Initial states.                                                         *)
(***************************************************************************)
SourceTree == MainTree
TargetTrees == getTargetWorktrees(SourceTree)
TargetFilePaths == {join(TargetTrees[i].path, <<n>>) : i \in DOMAIN TargetTrees, n \in Names}

\* what may be at a target path before the first run: a plain file, a directory,
\* or a link to the source file (either style), to another file, or to nothing
InitialKinds == {"file", "dir", "relative-to-source", "absolute-to-source",
                 "to-other", "dangling"}

EntryOf(kind, p) ==
    LET sourcePath == join(SourceTree.path, <<basename(p)>>)
    IN  CASE kind = "file" -> File("local")
          [] kind = "dir" -> Dir
          [] kind = "relative-to-source" -> Link(relative(dirname(p), sourcePath))
          [] kind = "absolute-to-source" -> Link(AbsText(sourcePath))
          [] kind = "to-other" -> Link(relative(dirname(p), OtherFile))
          [] kind = "dangling" -> Link(relative(dirname(p), GoneFile))

\* the disk with the given source files, the given trees present and nothing
\* under the target trees
EmptyDisk(sourceNames, reachable) ==
    [p \in Paths |->
        IF p \in TreePaths THEN (IF p \in reachable THEN Dir ELSE Absent)
        ELSE IF dirname(p) # SourceTree.path \/ SourceTree.path \notin reachable THEN Absent
        ELSE IF p = OtherFile THEN File("other")
        ELSE IF basename(p) \in sourceNames THEN File("shared")
        ELSE Absent]

\* the disks with at most n entries under the (present) target trees
DisksWith(n, sourceNames) ==
    LET base == EmptyDisk(sourceNames, TreePaths)
    IN  UNION {{[p \in Paths |-> IF p \in S THEN EntryOf(f[p], p) ELSE base[p]] :
                  f \in [S -> InitialKinds]} :
               S \in {T \in SUBSET TargetFilePaths : Cardinality(T) <= n}}

Configs(hookCommands) ==
    [sharedFiles : {<<"docker-compose.yml", ".env">>},
     ignore : {<<>>},
     sourceWorktree : {"main"},
     linkMode : {"relative", "absolute"},
     overwrite : BOOLEAN,
     hooks : [beforeSync : hookCommands, afterSync : hookCommands]]

\* runs over every state of the target trees, without hooks
InitDisks ==
    /\ config \in Configs({""})
    /\ disk \in UNION {DisksWith(MaxPreexisting, names) :
                         names \in {Names, Names \ {CONFIG_FILE_NAME}}}

\* runs over every hook, every content of the source tree and every set of
\* trees that are gone from the disk, with nothing under the target trees
InitEnvironment ==
    /\ config \in Configs({"", "ok", "fail"})
    /\ disk \in {EmptyDisk(names, reachable) :
                   names \in SUBSET Names, reachable \in SUBSET TreePaths}

Init ==
    /\ InitDisks \/ InitEnvironment
    /\ history = <<>>
    /\ applied = <<>>
    /\ plans = <<>>
    /\ ops = <<>>
    /\ lookups = <<>>
    /\ probes = <<>>
    /\ procs = <<>>

(***************************************************************************)
(* Actions.                                                                *)
(***************************************************************************)
\* one invocation of SyncEngine.sync with the loaded configuration
Sync(dryRun) ==
    /\ Len(history) < MaxRuns
    /\ history' = Append(history, sync(disk, config, dryRun, NoSelectiveSync))
    /\ disk' = history'[Len(history')].after
    /\ UNCHANGED <<config, applied, plans, ops, lookups, probes, procs>>

SyncLive == Sync(FALSE)
SyncPreview == Sync(TRUE)

Next == SyncLive \/ SyncPreview

Spec == Init /\ [][Next]_vars

(***************************************************************************)
(* Direct calls of SymlinkManager.executeAction: the action is one that    *)
(* createSyncAction builds for the pair and the link mode, of any kind     *)
(* (the plan it comes from may be stale), and the overwrite flag is the    *)
(* caller's.                                                               *)
(***************************************************************************)
ReasonOf(kind) ==
    CASE kind = "create" -> "creating"
      [] kind = "update" -> "points elsewhere"
      [] kind = "skip" -> "already correct"

plannedAction(sourceWorktree, targetWorktree, file, linkMode, kind) ==
    SyncAction(targetWorktree, file,
               join(sourceWorktree.path, <<file>>),
               join(targetWorktree.path, <<file>>),
               linkTextFor(join(sourceWorktree.path, <<file>>),
                           join(targetWorktree.path, <<file>>), linkMode),
               <<kind, ReasonOf(kind)>>)

Applied(d, action, overwrite, done) ==
    [action |-> action, overwrite |-> overwrite, before |-> d,
     after |-> done.disk, error |-> done.error]

Apply(targetWorktree, file, linkMode, kind, overwrite) ==
    /\ Len(applied) < MaxApplies
    /\ applied' = Append(applied,
                         Applied(disk,
                                 plannedAction(SourceTree, targetWorktree, file, linkMode, kind),
                                 overwrite,
                                 executeAction(disk,
                                     plannedAction(SourceTree, targetWorktree, file, linkMode, kind),
                                     overwrite)))
    /\ disk' = applied'[Len(applied')].after
    /\ UNCHANGED <<config, history, plans, ops, lookups, probes, procs>>

InitApply ==
    /\ config = [sharedFiles |-> <<"docker-compose.yml", ".env">>, ignore |-> <<>>,
                 sourceWorktree |-> "main", linkMode |-> "relative", overwrite |-> FALSE,
                 hooks |-> [beforeSync |-> "", afterSync |-> ""]]
    /\ disk \in UNION {DisksWith(1, names) : names \in {Names, Names \ {".env"}}}
               \cup {EmptyDisk(Names, reachable) : reachable \in SUBSET TreePaths}
    /\ history = <<>>
    /\ applied = <<>>
    /\ plans = <<>>
    /\ ops = <<>>
    /\ lookups = <<>>
    /\ probes = <<>>
    /\ procs = <<>>

NextApply ==
    \E targetWorktree \in Range(TargetTrees), file \in Names,
       linkMode \in {"relative", "absolute"}, kind \in {"create", "update", "skip"},
       overwrite \in BOOLEAN :
        Apply(targetWorktree, file, linkMode, kind, overwrite)

SpecApply == InitApply /\ [][NextApply]_vars

(***************************************************************************)
(* Calls of SyncEngine.createPlan, over pattern lists, ignore lists,       *)
(* contents of the source tree and selective-sync arguments.               *)
(***************************************************************************)
Planned(d, cfg, selectiveSync, plan) ==
    [selectiveSync |-> selectiveSync, before |-> d, after |-> d,
     files |-> finalFiles(d, cfg, selectiveSync, plan.sourceWorktree),
     plan |-> plan]

\* createPlan only reads the disk
CreatePlan(selectiveSync) ==
    /\ Len(plans) < MaxPlans
    /\ plans' = Append(plans, Planned(disk, config, selectiveSync,
                                     createSyncPlan(disk, config, selectiveSync)))
    /\ UNCHANGED <<config, disk, history, applied, ops, lookups, probes, procs>>

PatternLists == {<<"*">>, <<".env">>, <<"docker-compose.yml", ".env">>, <<"*", ".env">>,
                 <<".worktreesync.json">>, <<"nomatch">>}
IgnoreLists == {<<>>, <<"*">>, <<".env">>, <<".worktreesync.json">>}
SelectiveSyncs ==
    {SelectiveSync(given, filePatterns, worktreeName) :
        given \in {TRUE}, filePatterns \in {<<>>, <<"*">>, <<".env", ".env">>},
        worktreeName \in {"", "feat1", "feat", "main"}}
    \cup {SelectiveSync(FALSE, <<>>, worktreeName) : worktreeName \in {"", "feat1", "feat", "main"}}

InitPlan ==
    /\ config \in [sharedFiles : PatternLists, ignore : IgnoreLists,
                    sourceWorktree : {"main", "feat1"}, linkMode : {"relative"}, overwrite : {FALSE},
                    hooks : {[beforeSync |-> "", afterSync |-> ""]}]
    /\ disk \in {EmptyDisk(names, TreePaths) : names \in SUBSET Names}
    /\ history = <<>>
    /\ applied = <<>>
    /\ plans = <<>>
    /\ ops = <<>>
    /\ lookups = <<>>
    /\ probes = <<>>
    /\ procs = <<>>

NextPlan == \E selectiveSync \in SelectiveSyncs : CreatePlan(selectiveSync)

SpecPlan == InitPlan /\ [][NextPlan]_vars

(***************************************************************************)
(* Calls of WorktreeManager.getSourceWorktree, over lists of discovered    *)
(* trees and source selectors.  The main tree of a list is the one whose   *)
(* path is the repository root, the top level of the tree the command runs *)
(* in.                                                                     *)
(***************************************************************************)
WorktreeInfo(path, branch, repositoryRoot) ==
    [path |-> path, branch |-> branch, isMain |-> path = repositoryRoot]

\* the trees of the model with the branches given, in discovery order
Listed(branches, repositoryRoot) ==
    [i \in DOMAIN branches |->
        WorktreeInfo(listWorktrees[i].path, branches[i], repositoryRoot)]

\* what `git worktree list` can give: the three trees under their own names, with
\* the branches of two trees exchanged, with a detached tree, fewer trees, none
BranchLists == {<<"main", "feat1", "feat2">>, <<"main", "feat2", "feat1">>,
                <<"main", "detached", "feat2">>, <<"main">>, <<>>}
\* the repository root: one of the trees, or a path that is none of the listed
RepositoryRoots == {MainTree.path, Feat1Tree.path, <<"repo", "elsewhere">>}
Selectors == DOMAIN SelectorText

Lookup(worktrees, repositoryRoot, sourceWorktreeName) ==
    [worktrees |-> worktrees, repositoryRoot |-> repositoryRoot,
     selector |-> sourceWorktreeName,
     found |-> getSourceWorktreeIn(worktrees, repositoryRoot, sourceWorktreeName)]

GetSource(branches, repositoryRoot, sourceWorktreeName) ==
    /\ Len(lookups) < MaxLookups
    /\ lookups' = Append(lookups, Lookup(Listed(branches, repositoryRoot), repositoryRoot,
                                         sourceWorktreeName))
    /\ UNCHANGED <<config, disk, history, applied, plans, ops, probes, procs>>

InitSource ==
    /\ config = [sharedFiles |-> <<"docker-compose.yml", ".env">>, ignore |-> <<>>,
                 sourceWorktree |-> "main", linkMode |-> "relative", overwrite |-> FALSE,
                 hooks |-> [beforeSync |-> "", afterSync |-> ""]]
    /\ disk = EmptyDisk(Names, TreePaths)
    /\ history = <<>>
    /\ applied = <<>>
    /\ plans = <<>>
    /\ ops = <<>>
    /\ lookups = <<>>
    /\ probes = <<>>
    /\ procs = <<>>

NextSource ==
    \E branches \in BranchLists, repositoryRoot \in RepositoryRoots,
       sourceWorktreeName \in Selectors :
        GetSource(branches, repositoryRoot, sourceWorktreeName)

SpecSource == InitSource /\ [][NextSource]_vars

(***************************************************************************)
(* Runs of sync, unlink and clean in any order on one repository.          *)
(***************************************************************************)
NoStatus == [sourceWorktree |-> <<>>, targetWorktrees |-> <<>>, syncedFiles |-> <<>>]

Op(name, dryRun, currentPath, d, after, removed, cleaned, errors, status, mode) ==
    [op |-> name, dryRun |-> dryRun, cwd |-> currentPath, before |-> d, after |-> after,
     removed |-> removed, cleaned |-> cleaned, errors |-> errors, status |-> status,
     mode |-> mode]

Invocations == Len(history) + Len(ops)

\* SyncEngine.sync among the other commands
SyncCommand(dryRun) ==
    /\ Invocations < MaxOps
    /\ history' = Append(history, sync(disk, config, dryRun, NoSelectiveSync))
    /\ disk' = history'[Len(history')].after
    /\ UNCHANGED <<config, applied, plans, ops, lookups, probes, procs>>

unlinkOp(d, dryRun, currentPath, done) ==
    Op("unlink", dryRun, currentPath, d, done.disk, done.removed, <<>>, done.errors, NoStatus,
       done.mode)

\* SyncEngine.unlinkSymlinks, called with the process in directory currentPath
Unlink(dryRun, currentPath) ==
    /\ Invocations < MaxOps
    /\ ops' = Append(ops, unlinkOp(disk, dryRun, currentPath,
                                    unlinkSymlinks(disk, config, dryRun, currentPath)))
    /\ disk' = ops'[Len(ops')].after
    /\ UNCHANGED <<config, history, applied, plans, lookups, probes, procs>>

cleanOp(d, dryRun, done) ==
    Op("clean", dryRun, <<>>, d, done.disk, <<>>, done.cleaned, done.errors, NoStatus, "")

\* SyncEngine.cleanBrokenLinks
Clean(dryRun) ==
    /\ Invocations < MaxOps
    /\ ops' = Append(ops, cleanOp(disk, dryRun, cleanBrokenLinks(disk, config, dryRun)))
    /\ disk' = ops'[Len(ops')].after
    /\ UNCHANGED <<config, history, applied, plans, lookups, probes, procs>>

\* a broken link at the same file of the two target trees
TwoBrokenLinks ==
    [EmptyDisk(Names, TreePaths) EXCEPT
        ![join(Feat1Tree.path, <<".env">>)] =
            EntryOf("dangling", join(Feat1Tree.path, <<".env">>)),
        ![join(Feat2Tree.path, <<".env">>)] =
            EntryOf("dangling", join(Feat2Tree.path, <<".env">>))]

InitCommands ==
    /\ config \in [sharedFiles : {<<"docker-compose.yml", ".env">>}, ignore : {<<>>},
                    sourceWorktree : {"main"}, linkMode : {"relative"}, overwrite : BOOLEAN,
                    hooks : {[beforeSync |-> "ok", afterSync |-> "ok"]}]
    /\ disk \in DisksWith(1, Names) \cup {TwoBrokenLinks}
    /\ history = <<>>
    /\ applied = <<>>
    /\ plans = <<>>
    /\ ops = <<>>
    /\ lookups = <<>>
    /\ probes = <<>>
    /\ procs = <<>>

NextCommands ==
    \/ \E dryRun \in BOOLEAN : SyncCommand(dryRun)
    \/ \E dryRun \in BOOLEAN, currentPath \in TreePaths : Unlink(dryRun, currentPath)
    \/ \E dryRun \in BOOLEAN : Clean(dryRun)

SpecCommands == InitCommands /\ [][NextCommands]_vars

(***************************************************************************)
(* Calls of SyncEngine.checkStatus, over contents of the target trees,     *)
(* contents of the source tree and lists of configured files.              *)
(***************************************************************************)
statusOp(d, status) == Op("status", FALSE, <<>>, d, d, <<>>, <<>>, <<>>, status, "")

\* checkStatus only reads the disk
Status ==
    /\ Len(ops) < MaxStatus
    /\ ops' = Append(ops, statusOp(disk, checkStatus(disk, config)))
    /\ UNCHANGED <<config, disk, history, applied, plans, lookups, probes, procs>>

InitStatus ==
    /\ config \in [sharedFiles : {<<"docker-compose.yml", ".env">>, <<"docker-compose.yml">>},
                    ignore : {<<>>}, sourceWorktree : {"main"}, linkMode : {"relative"},
                    overwrite : {FALSE}, hooks : {[beforeSync |-> "", afterSync |-> ""]}]
    /\ disk \in UNION {DisksWith(MaxPreexisting, names) : names \in {Names, Names \ {".env"}}}
               \cup {EmptyDisk(Names, reachable) : reachable \in SUBSET TreePaths}
    /\ history = <<>>
    /\ applied = <<>>
    /\ plans = <<>>
    /\ ops = <<>>
    /\ lookups = <<>>
    /\ probes = <<>>
    /\ procs = <<>>

NextStatus == Status

SpecStatus == InitStatus /\ [][NextStatus]_vars

(***************************************************************************)
(* The commands and actions of stale plans, in any order, with overwrite   *)
(* disabled, over a target tree that holds a plain file or a directory.    *)
(***************************************************************************)
Steps == Len(history) + Len(ops) + Len(applied)

PlainKinds == {"file", "dir"}
PlainDisks ==
    {[EmptyDisk(Names, TreePaths) EXCEPT ![join(Feat1Tree.path, <<n>>)] =
                                                EntryOf(kind, join(Feat1Tree.path, <<n>>))] :
        n \in Names, kind \in PlainKinds}

InitPlain ==
    /\ config = [sharedFiles |-> <<"docker-compose.yml", ".env">>, ignore |-> <<>>,
                 sourceWorktree |-> "main", linkMode |-> "relative", overwrite |-> FALSE,
                 hooks |-> [beforeSync |-> "ok", afterSync |-> "ok"]]
    /\ disk \in PlainDisks
    /\ history = <<>>
    /\ applied = <<>>
    /\ plans = <<>>
    /\ ops = <<>>
    /\ lookups = <<>>
    /\ probes = <<>>
    /\ procs = <<>>

SyncStep(dryRun) == Steps < MaxSteps /\ SyncCommand(dryRun)
UnlinkStep(dryRun, currentPath) == Steps < MaxSteps /\ Unlink(dryRun, currentPath)
CleanStep(dryRun) == Steps < MaxSteps /\ Clean(dryRun)

\* executeAction with an action of a plan made earlier, under the loaded configuration
ApplyStale(targetWorktree, file, kind) ==
    /\ Steps < MaxSteps
    /\ Apply(targetWorktree, file, config.linkMode, kind, config.overwrite)

NextPlain ==
    \/ \E dryRun \in BOOLEAN : SyncStep(dryRun)
    \/ \E dryRun \in BOOLEAN, currentPath \in TreePaths : UnlinkStep(dryRun, currentPath)
    \/ \E dryRun \in BOOLEAN : CleanStep(dryRun)
    \/ \E targetWorktree \in Range(TargetTrees), file \in Names,
          kind \in {"create", "update"} : ApplyStale(targetWorktree, file, kind)

SpecPlain == InitPlain /\ [][NextPlain]_vars

(***************************************************************************)
(* The health check, over the contents of the source tree, the trees that  *)
(* are gone from the disk and what lies under the target trees.            *)
(***************************************************************************)
doctorOp(d, result) == Op("doctor", FALSE, <<>>, d, d, <<>>, <<>>, <<>>, result, "")

Doctor(worktrees) ==
    /\ Len(ops) < MaxDoctor
    /\ ops' = Append(ops, doctorOp(disk, doctor(disk, config, worktrees)))
    /\ UNCHANGED <<config, disk, history, applied, plans, lookups, probes, procs>>

InitDoctor ==
    /\ config \in [sharedFiles : {<<"docker-compose.yml", ".env">>, <<"*">>},
                    ignore : {<<>>}, sourceWorktree : {"main"}, linkMode : {"relative"},
                    overwrite : {FALSE}, hooks : {[beforeSync |-> "", afterSync |-> ""]}]
    /\ disk \in DisksWith(MaxFindings, Names)
               \cup DisksWith(MaxFindings, {CONFIG_FILE_NAME})
               \cup {EmptyDisk(names, reachable) :
                       names \in SUBSET Names, reachable \in SUBSET TreePaths}
    /\ history = <<>>
    /\ applied = <<>>
    /\ plans = <<>>
    /\ ops = <<>>
    /\ lookups = <<>>
    /\ probes = <<>>
    /\ procs = <<>>

NextDoctor == \E worktrees \in {listWorktrees, <<>>} : Doctor(worktrees)

SpecDoctor == InitDoctor /\ [][NextDoctor]_vars

(***************************************************************************)
(* The fs calls of the operations that inspect the disk (createSyncPlan,   *)
(* validatePlan, checkStatus, doctor), in the order the code makes them,   *)
(* and the disk those calls leave.                                         *)
(***************************************************************************)
FsCall(fn, path) == [fn |-> fn, path |-> path]
ReadingCalls == {"glob", "readdir", "existsSync", "lstatSync", "readlinkSync"}

fsEffect(d, call) ==
    IF call.fn \in ReadingCalls THEN d
    ELSE IF call.fn = "unlinkSync" /\ lstatSync(d, call.path).kind # "absent"
    THEN unlinkSync(d, call.path)
    ELSE d

RECURSIVE diskAfter(_, _)
diskAfter(d, calls) ==
    IF calls = <<>> THEN d ELSE diskAfter(fsEffect(d, Head(calls)), Tail(calls))

\* isValidSymlink and isSymlinkPointingTo
linkStateCalls(d, p) ==
    <<FsCall("existsSync", p)>>
    \o (IF existsSync(d, p)
        THEN <<FsCall("lstatSync", p)>>
             \o (IF lstatSync(d, p).kind = "link" THEN <<FsCall("readlinkSync", p)>> ELSE <<>>)
        ELSE <<>>)

\* createSyncAction
createSyncActionCalls(d, action) ==
    <<FsCall("existsSync", action.sourcePath)>>
    \o (IF ~existsSync(d, action.sourcePath) THEN <<>>
        ELSE <<FsCall("existsSync", action.targetPath)>>
             \o (IF ~existsSync(d, action.targetPath) THEN <<>>
                 ELSE <<FsCall("lstatSync", action.targetPath)>>
                      \o (IF lstatSync(d, action.targetPath).kind = "link"
                          THEN linkStateCalls(d, action.targetPath) ELSE <<>>)))

\* the createSyncAction calls of a plan, action by action
RECURSIVE createSyncActionsCalls(_, _)
createSyncActionsCalls(d, syncActions) ==
    IF syncActions = <<>> THEN <<>>
    ELSE createSyncActionCalls(d, Head(syncActions))
         \o createSyncActionsCalls(d, Tail(syncActions))

createSyncPlanCalls(d, cfg, plan) ==
    [i \in DOMAIN cfg.sharedFiles |-> FsCall("glob", plan.sourceWorktree.path)]
    \o createSyncActionsCalls(d, plan.syncActions)

\* validatePlan: validateWorktreeAccess of the source tree and of every target tree
validatePlanCalls(d, cfg, plan) ==
    <<FsCall("existsSync", plan.sourceWorktree.path)>>
    \o [i \in DOMAIN plan.targetWorktrees |-> FsCall("existsSync", plan.targetWorktrees[i].path)]

\* validateSymlinks
validateSymlinkCalls(d, p) ==
    <<FsCall("lstatSync", p)>>
    \o (IF lstatSync(d, p).kind = "link" THEN linkStateCalls(d, p) ELSE <<>>)

RECURSIVE validateSymlinksCalls(_, _, _)
validateSymlinksCalls(d, worktreePath, files) ==
    IF files = <<>> THEN <<>>
    ELSE validateSymlinkCalls(d, join(worktreePath, <<Head(files)>>))
         \o validateSymlinksCalls(d, worktreePath, Tail(files))

\* the loop of checkStatus: scanExistingSymlinks, then validateSymlinks
RECURSIVE statusTreesCalls(_, _, _)
statusTreesCalls(d, targetWorktrees, configFiles) ==
    IF targetWorktrees = <<>> THEN <<>>
    ELSE <<FsCall("readdir", Head(targetWorktrees).path)>>
         \o validateSymlinksCalls(d, Head(targetWorktrees).path,
                unique(configFiles \o scanExistingSymlinks(d, Head(targetWorktrees))))
         \o statusTreesCalls(d, Tail(targetWorktrees), configFiles)

\* an unlinkSync for every broken link of the trees
RECURSIVE cleaningCalls(_, _)
cleaningCalls(d, targetWorktrees) ==
    IF targetWorktrees = <<>> THEN <<>>
    ELSE [k \in DOMAIN validateSymlinks(d, Head(targetWorktrees), SortedNames).broken |->
             FsCall("unlinkSync",
                    join(Head(targetWorktrees).path,
                         <<validateSymlinks(d, Head(targetWorktrees), SortedNames).broken[k]>>))]
         \o cleaningCalls(d, Tail(targetWorktrees))

\* checkStatus removing the broken links it finds
checkStatusCallsCleaning(d, cfg, plan) ==
    createSyncPlanCalls(d, cfg, plan)
    \o statusTreesCalls(d, plan.targetWorktrees, unique(actionFiles(plan.syncActions)))
    \o cleaningCalls(d, plan.targetWorktrees)

\* checkStatus: createSyncPlan, then every target tree
checkStatusCalls(d, cfg, plan) ==
    createSyncPlanCalls(d, cfg, plan)
    \o statusTreesCalls(d, plan.targetWorktrees, unique(actionFiles(plan.syncActions)))

\* checkMissingFiles
RECURSIVE checkMissingFilesCalls(_, _)
checkMissingFilesCalls(patterns, cwd) ==
    IF patterns = <<>> THEN <<>>
    ELSE <<IF isGlobPattern(Head(patterns)) THEN FsCall("glob", cwd)
           ELSE FsCall("existsSync", join(cwd, <<Head(patterns)>>))>>
         \o checkMissingFilesCalls(Tail(patterns), cwd)

RECURSIVE doctorTreesCalls(_, _, _)
doctorTreesCalls(d, targetWorktrees, uniqueFiles) ==
    IF targetWorktrees = <<>> THEN <<>>
    ELSE validateSymlinksCalls(d, Head(targetWorktrees).path, uniqueFiles)
         \o doctorTreesCalls(d, Tail(targetWorktrees), uniqueFiles)

\* doctor: createSyncPlan, checkMissingFiles, validateSymlinks for every target tree
doctorCalls(d, cfg, plan) ==
    createSyncPlanCalls(d, cfg, plan)
    \o checkMissingFilesCalls(cfg.sharedFiles, plan.sourceWorktree.path)
    \o doctorTreesCalls(d, plan.targetWorktrees, unique(actionFiles(plan.syncActions)))

inspectOp(name, d, result, calls) ==
    Op(name, FALSE, <<>>, d, diskAfter(d, calls), <<>>, <<>>, <<>>, result, "")

Inspect(o) ==
    /\ Len(ops) < MaxInspections
    /\ ops' = Append(ops, o)
    /\ disk' = o.after
    /\ UNCHANGED <<config, history, applied, plans, lookups, probes, procs>>

InspectPlan ==
    Inspect(inspectOp("plan", disk, createSyncPlan(disk, config, NoSelectiveSync),
                      createSyncPlanCalls(disk, config,
                                          createSyncPlan(disk, config, NoSelectiveSync))))

InspectValidation ==
    Inspect(inspectOp("validate", disk,
                      validatePlan(disk, createSyncPlan(disk, config, NoSelectiveSync)),
                      validatePlanCalls(disk, config,
                                        createSyncPlan(disk, config, NoSelectiveSync))))

InspectStatus ==
    Inspect(inspectOp("status", disk, checkStatus(disk, config),
                      checkStatusCalls(disk, config,
                                       createSyncPlan(disk, config, NoSelectiveSync))))

InspectDoctor ==
    Inspect(inspectOp("doctor", disk, doctor(disk, config, listWorktrees),
                      doctorCalls(disk, config,
                                  createSyncPlan(disk, config, NoSelectiveSync))))

InitInspect ==
    /\ config \in [sharedFiles : {<<"docker-compose.yml", ".env">>, <<"*">>},
                    ignore : {<<>>}, sourceWorktree : {"main"}, linkMode : {"relative"},
                    overwrite : {FALSE}, hooks : {[beforeSync |-> "", afterSync |-> ""]}]
    /\ disk \in DisksWith(MaxPreexisting, Names)
               \cup {EmptyDisk(Names, reachable) : reachable \in SUBSET TreePaths}
    /\ history = <<>>
    /\ applied = <<>>
    /\ plans = <<>>
    /\ ops = <<>>
    /\ lookups = <<>>
    /\ probes = <<>>
    /\ procs = <<>>

NextInspect == InspectPlan \/ InspectValidation \/ InspectStatus \/ InspectDoctor

SpecInspect == InitInspect /\ [][NextInspect]_vars

(***************************************************************************)
(* Calls of the two link-state predicates on one path of a target tree,    *)
(* whatever is at the path, with and without a failing fs call.            *)
(***************************************************************************)
ProbedPath == join(Feat1Tree.path, <<".env">>)
ExpectedTargets == {join(SourceTree.path, <<".env">>), OtherFile}
ErrorCodes == {"EACCES", "ELOOP", "ESTALE", "EIO", "EMFILE"}
Faults == {NoFault} \cup {Fault(call, code) :
                             call \in {"existsSync", "lstatSync", "readlinkSync"},
                             code \in ErrorCodes}

Probe(predicate, d, expectedTarget, fault, outcome) ==
    [predicate |-> predicate, path |-> ProbedPath, expected |-> expectedTarget,
     fault |-> fault, before |-> d, outcome |-> outcome]

IsValidSymlink(fault) ==
    /\ Len(probes) < MaxProbes
    /\ probes' = Append(probes, Probe("isValidSymlink", disk, <<>>, fault,
                                      isValidSymlinkWith(disk, ProbedPath, fault)))
    /\ UNCHANGED <<config, disk, history, applied, plans, ops, lookups, procs>>

IsSymlinkPointingTo(expectedTarget, fault) ==
    /\ Len(probes) < MaxProbes
    /\ probes' = Append(probes, Probe("isSymlinkPointingTo", disk, expectedTarget, fault,
                                      isSymlinkPointingToWith(disk, ProbedPath,
                                                              expectedTarget, fault)))
    /\ UNCHANGED <<config, disk, history, applied, plans, ops, lookups, procs>>

\* the entries at the probed path: nothing, every initial kind, a link to itself
ProbedDisks ==
    {EmptyDisk(Names, TreePaths)}
    \cup {[EmptyDisk(Names, TreePaths) EXCEPT ![ProbedPath] = EntryOf(kind, ProbedPath)] :
            kind \in InitialKinds}
    \cup {[EmptyDisk(Names, TreePaths) EXCEPT ![ProbedPath] = Link(RelText(<<".env">>))]}

InitProbe ==
    /\ config = [sharedFiles |-> <<"docker-compose.yml", ".env">>, ignore |-> <<>>,
                 sourceWorktree |-> "main", linkMode |-> "relative", overwrite |-> FALSE,
                 hooks |-> [beforeSync |-> "", afterSync |-> ""]]
    /\ disk \in ProbedDisks
    /\ history = <<>>
    /\ applied = <<>>
    /\ plans = <<>>
    /\ ops = <<>>
    /\ lookups = <<>>
    /\ probes = <<>>
    /\ procs = <<>>

NextProbe ==
    \/ \E fault \in Faults : IsValidSymlink(fault)
    \/ \E expectedTarget \in ExpectedTargets, fault \in Faults :
          IsSymlinkPointingTo(expectedTarget, fault)

SpecProbe == InitProbe /\ [][NextProbe]_vars

(***************************************************************************)
(* Two live sync runs at the same time.  Each run makes its plan, then     *)
(* applies it action by action; every fs call of executeAction and         *)
(* createSymlink is a step of its own, and the steps of the two runs       *)
(* interleave in every order.  No hook is configured.                      *)
(***************************************************************************)
Procs == {1, 2}

Proc(pc, syncActions, i, result) ==
    [pc |-> pc, plan |-> syncActions, i |-> i, result |-> result]

\* the loop of executePlan: a skip is counted at once, an update starts with the
\* existsSync of executeAction, a create with the mkdir of createSymlink
RECURSIVE enter(_)
enter(proc) ==
    IF proc.i > Len(proc.plan) THEN [proc EXCEPT !.pc = "done"]
    ELSE IF proc.plan[proc.i].action = "skip"
    THEN enter([proc EXCEPT !.i = @ + 1, !.result = updateResultCounts("skip", @)])
    ELSE IF proc.plan[proc.i].action = "update" THEN [proc EXCEPT !.pc = "updateExists"]
    ELSE [proc EXCEPT !.pc = "mkdir"]

\* executeAction returned: the action is counted
succeed(proc) ==
    enter([proc EXCEPT !.i = @ + 1,
                       !.result = updateResultCounts(proc.plan[proc.i].action, @)])

\* executeAction threw: the catch of executePlan records the error
fail(proc, operation, code) ==
    enter([proc EXCEPT !.i = @ + 1,
                       !.result = [@ EXCEPT !.errors =
                                      Append(@, SyncError(proc.plan[proc.i],
                                                          FileSystemError(operation, code)))]])

TargetOf(self) == procs[self].plan[procs[self].i].targetPath

At(self, pc) == procs # <<>> /\ procs[self].pc = pc

Step(self, proc, d) ==
    /\ procs' = [procs EXCEPT ![self] = proc]
    /\ disk' = d
    /\ UNCHANGED <<config, history, applied, plans, ops, lookups, probes>>

\* createSyncPlan and validatePlan
StartRun(self) ==
    /\ At(self, "start")
    /\ procs' = [procs EXCEPT ![self] =
            IF validatePlan(disk, createSyncPlan(disk, config, NoSelectiveSync)).valid
            THEN enter(Proc("start", createSyncPlan(disk, config, NoSelectiveSync).syncActions,
                            1, NoResult))
            ELSE Proc("done", createSyncPlan(disk, config, NoSelectiveSync).syncActions, 1,
                      SyncFailure(NoResult, "VALIDATION_ERROR"))]
    /\ UNCHANGED <<config, disk, history, applied, plans, ops, lookups, probes>>

\* executeAction: if (action.action === 'update' && existsSync(action.targetPath))
UpdateExists(self) ==
    /\ At(self, "updateExists")
    /\ Step(self,
         IF ~existsSync(disk, TargetOf(self)) THEN [procs[self] EXCEPT !.pc = "mkdir"]
         ELSE IF config.overwrite THEN [procs[self] EXCEPT !.pc = "updateLstat"]
         ELSE fail(procs[self], "executeAction", "EEXIST"),
         disk)

\* removeExisting: lstatSync, for the two callers
afterLstat(proc, d, target, toUnlink, toGoOn) ==
    IF lstatSync(d, target).kind = "link" THEN [proc EXCEPT !.pc = toUnlink]
    ELSE IF lstatSync(d, target).kind = "file" THEN fail(proc, "removeExisting", "EEXIST")
    ELSE [proc EXCEPT !.pc = toGoOn]

\* removeExisting: unlinkSync; ENOENT is "fine"
afterUnlink(d, target) ==
    IF lstatSync(d, target).kind = "absent" THEN d ELSE unlinkSync(d, target)

UpdateLstat(self) ==
    /\ At(self, "updateLstat")
    /\ Step(self,
         afterLstat(procs[self], disk, TargetOf(self), "updateUnlink", "mkdir"), disk)

UpdateUnlink(self) ==
    /\ At(self, "updateUnlink")
    /\ Step(self,
         [procs[self] EXCEPT !.pc = "mkdir"],
         afterUnlink(disk, TargetOf(self)))

\* createSymlink: mkdir(targetDir, {recursive: true})
Mkdir(self) ==
    /\ At(self, "mkdir")
    /\ Step(self,
         IF mkdir(disk, dirname(TargetOf(self))).error # NoError
         THEN fail(procs[self], "createSymlink",
                   mkdir(disk, dirname(TargetOf(self))).error.code)
         ELSE [procs[self] EXCEPT !.pc = "exists"],
         mkdir(disk, dirname(TargetOf(self))).disk)

\* createSymlink: if (existsSync(targetPath))
Exists(self) ==
    /\ At(self, "exists")
    /\ Step(self,
         [procs[self] EXCEPT !.pc = IF existsSync(disk, TargetOf(self)) THEN "lstat"
                                    ELSE "symlink"],
         disk)

Lstat(self) ==
    /\ At(self, "lstat")
    /\ Step(self,
         afterLstat(procs[self], disk, TargetOf(self), "unlink", "symlink"),
         disk)

UnlinkExisting(self) ==
    /\ At(self, "unlink")
    /\ Step(self,
         [procs[self] EXCEPT !.pc = "symlink"],
         afterUnlink(disk, TargetOf(self)))

\* createSymlink: symlinkSync(linkPath, targetPath)
linked(d, action) ==
    symlinkSync(d, linkTextFor(action.sourcePath, action.targetPath,
                               linkModeOf(action.linkPath)),
                action.targetPath)

Symlink(self) ==
    /\ At(self, "symlink")
    /\ Step(self,
         IF linked(disk, procs[self].plan[procs[self].i]).error # NoError
         THEN fail(procs[self], "createSymlink",
                   linked(disk, procs[self].plan[procs[self].i]).error.code)
         ELSE succeed(procs[self]),
         linked(disk, procs[self].plan[procs[self].i]).disk)

\* a wrong link in feat1, to be updated
WrongLink ==
    [EmptyDisk(Names, TreePaths) EXCEPT
        ![join(Feat1Tree.path, <<".env">>)] =
            EntryOf("to-other", join(Feat1Tree.path, <<".env">>))]

InitConcurrent ==
    /\ config = [sharedFiles |-> <<".env">>, ignore |-> <<>>,
                 sourceWorktree |-> "main", linkMode |-> "relative", overwrite |-> TRUE,
                 hooks |-> [beforeSync |-> "", afterSync |-> ""]]
    /\ disk \in {EmptyDisk(Names, TreePaths), WrongLink,
                  EmptyDisk(Names, TreePaths \ {Feat2Tree.path})}
    /\ history = <<>>
    /\ applied = <<>>
    /\ plans = <<>>
    /\ ops = <<>>
    /\ lookups = <<>>
    /\ probes = <<>>
    /\ procs = [self \in Procs |-> Proc("start", <<>>, 1, NoResult)]

NextConcurrent ==
    \E self \in Procs :
        \/ StartRun(self)
        \/ UpdateExists(self)
        \/ UpdateLstat(self)
        \/ UpdateUnlink(self)
        \/ Mkdir(self)
        \/ Exists(self)
        \/ Lstat(self)
        \/ UnlinkExisting(self)
        \/ Symlink(self)

SpecConcurrent == InitConcurrent /\ [][NextConcurrent]_vars

(***************************************************************************)
(* Vocabulary of the properties.                                           *)
(***************************************************************************)
Runs == Range(history)
LiveRuns == {r \in Runs : ~r.dryRun}
\* the runs that passed the validation gate
ExecutedRuns == {r \in Runs : r.valid}
\* the errors executePlan recorded (the others name no file)
PerActionErrors(r) == SelectSeq(r.result.errors, LAMBDA e : e.file # "")
Codes(r) == {r.result.errors[i].code : i \in DOMAIN r.result.errors}
Counts(r) == <<r.result.created, r.result.updated, r.result.skipped>>

IsLink(d, p) == lstatSync(d, p).kind = "link"
\* the path the link at p names
LinkDestination(d, p) == resolve(dirname(p), readlinkSync(d, p))
LinksTo(d, p, destination) == IsLink(d, p) /\ LinkDestination(d, p) = destination
IsPlain(d, p) == lstatSync(d, p).kind \in {"file", "dir"}
SourceExists(d, action) == statSync(d, action.sourcePath, MaxHops).kind # "absent"

\* the source tree of the scenario of C2: docker-compose.yml and .env, nothing else
ScenarioDisk == EmptyDisk({"docker-compose.yml", ".env"}, TreePaths)
NoHookFails == config.hooks.beforeSync # "fail" /\ config.hooks.afterSync # "fail"
TwoLiveRunsOfScenario ==
    /\ Len(history) >= 2
    /\ ~history[1].dryRun /\ ~history[2].dryRun
    /\ history[1].before = ScenarioDisk
    /\ ~config.overwrite
    /\ NoHookFails

(***************************************************************************)
(* C1 (as claimed): after a live run has completed, planning again with    *)
(* the same configuration on the disk the run left yields a plan whose     *)
(* every action is skip.                                                   *)
(***************************************************************************)
C1_ReplanAllSkip ==
    \A r \in LiveRuns \cap ExecutedRuns :
        \A a \in Range(createSyncPlan(r.after, config, NoSelectiveSync).syncActions) :
            a.action = "skip"

C3_EveryActionAttempted ==
    \A r \in LiveRuns \cap ExecutedRuns :
        /\ r.attempted = [i \in 1..Len(r.plan) |-> i]
        /\ r.result.created + r.result.updated + r.result.skipped
             + Len(PerActionErrors(r)) = Len(r.plan)
        /\ \A k \in DOMAIN PerActionErrors(r) :
             \E i \in DOMAIN r.plan :
                /\ r.plan[i].file = PerActionErrors(r)[k].file
                /\ r.plan[i].targetWorktree = PerActionErrors(r)[k].worktree
                /\ executeAction(r.before, r.plan[i], config.overwrite).error # NoError

\* an action failed and actions after it were applied
C3_Witness ==
    \E r \in LiveRuns \cap ExecutedRuns :
        \E i \in DOMAIN r.plan :
            /\ i < Len(r.plan)
            /\ PerActionErrors(r) # <<>>
            /\ r.plan[i].file = PerActionErrors(r)[1].file
            /\ r.plan[i].targetWorktree = PerActionErrors(r)[1].worktree
            /\ IsLink(r.after, r.plan[Len(r.plan)].targetPath)
            /\ ~IsLink(r.before, r.plan[Len(r.plan)].targetPath)

(***************************************************************************)
(* C4: executeAction of an update action with overwrite disabled, on a     *)
(* target path that holds a plain file, leaves the disk as it was (the     *)
(* file is there, unchanged, and no link is made) and throws the conflict  *)
(* error of executeAction, code EEXIST.                                    *)
(***************************************************************************)
UpdateOfPlainFileWithoutOverwrite(c) ==
    /\ c.action.action = "update"
    /\ ~c.overwrite
    /\ lstatSync(c.before, c.action.targetPath).kind = "file"

C4_ConflictKeepsFile ==
    \A c \in Range(applied) :
        UpdateOfPlainFileWithoutOverwrite(c) =>
            /\ c.after = c.before
            /\ c.error = FileSystemError("executeAction", "EEXIST")

C4_Witness == \E c \in Range(applied) : UpdateOfPlainFileWithoutOverwrite(c)

(***************************************************************************)
(* C5 (as claimed): executeAction of an update action on a target path     *)
(* that holds a symbolic link to something other than the source removes   *)
(* that link and leaves a link to the source, with overwrite enabled and   *)
(* with overwrite disabled.                                                *)
(***************************************************************************)
C5_UpdateReplacesLink ==
    \A c \in Range(applied) :
        (/\ c.action.action = "update"
         /\ IsLink(c.before, c.action.targetPath)
         /\ ~LinksTo(c.before, c.action.targetPath, c.action.sourcePath))
        => /\ c.error = NoError
           /\ LinksTo(c.after, c.action.targetPath, c.action.sourcePath)

(***************************************************************************)
(* C6 (as claimed): executeAction of an update action with overwrite       *)
(* enabled on a target path that holds a plain file or directory removes   *)
(* that entry and leaves a link to the source, with no error.              *)
(***************************************************************************)
C6_OverwriteReplacesPlain ==
    \A c \in Range(applied) :
        (/\ c.action.action = "update"
         /\ c.overwrite
         /\ IsPlain(c.before, c.action.targetPath))
        => /\ c.error = NoError
           /\ LinksTo(c.after, c.action.targetPath, c.action.sourcePath)

(***************************************************************************)
(* C7 (as claimed): when the source file exists and the target path holds  *)
(* a symbolic link that does not lead to the source file, whatever it      *)
(* leads to, the planned action is update.                                 *)
(***************************************************************************)
C7_WrongLinkIsUpdate ==
    \A r \in Runs : \A a \in Range(r.plan) :
        (/\ SourceExists(r.before, a)
         /\ IsLink(r.before, a.targetPath)
         /\ ~LinksTo(r.before, a.targetPath, a.sourcePath))
        => a.action = "update"

(***************************************************************************)
(* C8: a target path that holds a symbolic link resolving to the source    *)
(* file (which exists) is planned as skip, "already correct", in both link *)
(* modes and with both overwrite settings.                                 *)
(***************************************************************************)
C8_CorrectLinkIsSkip ==
    \A r \in Runs : \A a \in Range(r.plan) :
        (SourceExists(r.before, a) /\ LinksTo(r.before, a.targetPath, a.sourcePath))
        => a.action = "skip" /\ a.reason = "already correct"

\* a link written in one style is found correct when planning in the other mode
C8_Witness ==
    \E r \in Runs : \E a \in Range(r.plan) :
        /\ SourceExists(r.before, a) /\ LinksTo(r.before, a.targetPath, a.sourcePath)
        /\ config.overwrite
        /\ config.linkMode = "absolute"
        /\ ~readlinkSync(r.before, a.targetPath).abs

(***************************************************************************)
(* C9: when the source file exists and a plain file or directory is at the *)
(* target path, the planned action is skip with overwrite disabled and     *)
(* update with overwrite enabled.                                          *)
(***************************************************************************)
C9_PlainEntryFollowsOverwrite ==
    \A r \in Runs : \A a \in Range(r.plan) :
        (SourceExists(r.before, a) /\ IsPlain(r.before, a.targetPath))
        => a.action = IF config.overwrite THEN "update" ELSE "skip"

C9_Witness ==
    \E r \in Runs : \E a \in Range(r.plan) :
        /\ SourceExists(r.before, a)
        /\ lstatSync(r.before, a.targetPath).kind = "dir"
        /\ config.overwrite
        /\ a.action = "update"

(***************************************************************************)
(* C10 (as claimed): when the source tree is unreachable the run applies   *)
(* no action and changes nothing, runs no hook, and returns a validation   *)
(* error with success=false.                                               *)
(***************************************************************************)
C10_UnreachableSourceChangesNothing ==
    \A r \in LiveRuns :
        ~validateWorktreeAccess(r.before, SourceTree)
        => /\ r.attempted = <<>>
           /\ r.after = r.before
           /\ "beforeSync" \notin Range(r.steps) /\ "afterSync" \notin Range(r.steps)
           /\ "VALIDATION_ERROR" \in Codes(r)
           /\ ~r.result.success

(***************************************************************************)
(* C11 (as claimed): in a live run the steps occur in the order planning,  *)
(* validation, pre-hook, execution, post-hook: the pre-hook runs only      *)
(* after planning and validation have succeeded, and the post-hook only    *)
(* after every action has been attempted.                                  *)
(***************************************************************************)
StepRank(step) ==
    CASE step = "plan" -> 1
      [] step = "validate" -> 2
      [] step = "beforeSync" -> 3
      [] step = "execute" -> 4
      [] step = "afterSync" -> 5

C11_StepsInOrder ==
    \A r \in LiveRuns :
        /\ \A i, j \in DOMAIN r.steps : i < j => StepRank(r.steps[i]) < StepRank(r.steps[j])
        /\ "beforeSync" \in Range(r.steps) => r.valid
        /\ "afterSync" \in Range(r.steps) => r.attempted = [i \in 1..Len(r.plan) |-> i]

(***************************************************************************)
(* C12: when the pre-hook or the post-hook of a live run fails, the failed *)
(* hook is the last step of the run, the run is reported as failed, and    *)
(* the disk is left as it was when the hook failed: unchanged for the      *)
(* pre-hook, with every change of the executed plan for the post-hook.     *)
(***************************************************************************)
PreHookFailed(r) == ~r.dryRun /\ config.hooks.beforeSync = "fail"
PostHookFailed(r) ==
    ~r.dryRun /\ config.hooks.beforeSync # "fail" /\ r.valid /\ config.hooks.afterSync = "fail"

C12_HookFailureIsFatalWithoutRollback ==
    \A r \in Runs :
        /\ PreHookFailed(r) =>
              /\ r.steps = <<"beforeSync">>
              /\ r.attempted = <<>>
              /\ r.after = r.before
              /\ ~r.result.success /\ "SYNC_ERROR" \in Codes(r)
        /\ PostHookFailed(r) =>
              /\ r.steps[Len(r.steps)] = "afterSync"
              /\ r.after = executePlan(r.before, [syncActions |-> r.plan], config.overwrite,
                                       FALSE, NoResult).disk
              /\ ~r.result.success /\ "SYNC_ERROR" \in Codes(r)

\* the post-hook failed after links had been made, and they are on the disk
C12_Witness ==
    \E r \in Runs :
        /\ PostHookFailed(r)
        /\ r.result.created > 0
        /\ \E a \in Range(r.plan) :
              ~IsLink(r.before, a.targetPath) /\ LinksTo(r.after, a.targetPath, a.sourcePath)

(***************************************************************************)
(* C13: a sync result with success=true has an empty error list; a result  *)
(* with a per-action, validation or hook error has success=false.          *)
(***************************************************************************)
C13_SuccessOnlyWithoutErrors ==
    \A r \in Runs : r.result.success => r.result.errors = <<>>

\* a run without hooks in which one action failed and another was applied
C13_Witness ==
    \E r \in LiveRuns \cap ExecutedRuns :
        /\ config.hooks.afterSync = ""
        /\ PerActionErrors(r) # <<>>
        /\ r.result.created > 0
        /\ ~r.result.success

(***************************************************************************)
(* C15: every entry that executing an action creates, changes or removes   *)
(* is the action's target tree or a path under it: nothing under the       *)
(* source tree or under another target tree changes.                       *)
(***************************************************************************)
Under(p, tree) == Len(p) >= Len(tree) /\ SubSeq(p, 1, Len(tree)) = tree

C15_ChangesStayInTargetTree ==
    \A c \in Range(applied) :
        \A p \in Paths :
            c.after[p] # c.before[p] =>
                /\ Under(p, c.action.targetWorktree)
                /\ ~Under(p, SourceTree.path)

\* an action replaced a link of its tree and left the other trees as they were
C15_Witness ==
    \E c \in Range(applied) :
        /\ c.error = NoError
        /\ c.action.action = "update"
        /\ IsLink(c.before, c.action.targetPath)
        /\ c.after[c.action.targetPath] # c.before[c.action.targetPath]

(***************************************************************************)
(* C16: executeAction of a create action whose target path is absent       *)
(* throws nothing, leaves the directory of the target path present         *)
(* (made when it was missing, kept when it was there) and leaves at the    *)
(* target path a symbolic link whose destination is the source path, so    *)
(* that reading through the link gives the source file.                    *)
(***************************************************************************)
CreateOnAbsentTarget(c) ==
    /\ c.action.action = "create"
    /\ lstatSync(c.before, c.action.targetPath).kind = "absent"

C16_CreateMakesDirectoriesAndLink ==
    \A c \in Range(applied) :
        CreateOnAbsentTarget(c) =>
            /\ c.error = NoError
            /\ lstatSync(c.after, dirname(c.action.targetPath)).kind = "dir"
            /\ LinksTo(c.after, c.action.targetPath, c.action.sourcePath)
            /\ statSync(c.after, c.action.targetPath, MaxHops)
                 = statSync(c.before, c.action.sourcePath, MaxHops)

\* the target tree's directory was missing and the source file exists
C16_Witness ==
    \E c \in Range(applied) :
        /\ CreateOnAbsentTarget(c)
        /\ lstatSync(c.before, c.action.targetWorktree).kind = "absent"
        /\ lstatSync(c.before, c.action.sourcePath).kind = "file"
        /\ statSync(c.after, c.action.targetPath, MaxHops).kind = "file"

(***************************************************************************)
(* C17 (as claimed): no file that matches an inclusion pattern and an      *)
(* exclusion pattern, both read as globs that match dotfiles, is among the *)
(* files a plan is built from.                                             *)
(***************************************************************************)
PlanRecords == Range(plans)
InclusionPatterns(pl) == Range(filePatternsOf(config, pl.selectiveSync))

C17_ExcludedFilesNeverPlanned ==
    \A pl \in PlanRecords : \A file \in Range(pl.files) :
        ~ /\ \E pattern \in InclusionPatterns(pl) : Matches(pattern, file, TRUE)
          /\ \E ignorePattern \in Range(config.ignore) : Matches(ignorePattern, file, TRUE)

TreeIndex(path) == CHOOSE i \in DOMAIN listWorktrees : listWorktrees[i].path = path
NameIndex(file) == CHOOSE i \in DOMAIN SortedNames : SortedNames[i] = file

C19_ActionsInTreeThenNameOrder ==
    \A pl \in PlanRecords : \A i, j \in DOMAIN pl.plan.syncActions :
        i < j =>
            \/ TreeIndex(pl.plan.syncActions[i].targetWorktree)
                 < TreeIndex(pl.plan.syncActions[j].targetWorktree)
            \/ /\ pl.plan.syncActions[i].targetWorktree = pl.plan.syncActions[j].targetWorktree
               /\ NameIndex(pl.plan.syncActions[i].file) < NameIndex(pl.plan.syncActions[j].file)

(***************************************************************************)
(* C20: within one plan no two actions have the same target tree and the   *)
(* same file, also when several patterns match one file or a pattern       *)
(* matches the reserved configuration file.                                *)
(***************************************************************************)
C20_NoDuplicateActions ==
    \A pl \in PlanRecords : \A i, j \in DOMAIN pl.plan.syncActions :
        (/\ pl.plan.syncActions[i].targetWorktree = pl.plan.syncActions[j].targetWorktree
         /\ pl.plan.syncActions[i].file = pl.plan.syncActions[j].file)
        => i = j

\* two patterns match .env and one of them matches the configuration file
C20_Witness ==
    \E pl \in PlanRecords :
        /\ ~pl.selectiveSync.given
        /\ config.sharedFiles = <<"*", ".env">>
        /\ config.ignore = <<>>
        /\ lstatSync(pl.before, join(SourceTree.path, <<".env">>)).kind = "file"
        /\ lstatSync(pl.before, join(SourceTree.path, <<CONFIG_FILE_NAME>>)).kind = "file"
        /\ Len(pl.plan.syncActions) >= 4

(***************************************************************************)
(* C14: in preview (dry-run) mode sync, unlink and clean leave the disk    *)
(* exactly as it was, and a preview sync invokes neither hook.             *)
(***************************************************************************)
C14_PreviewChangesNothing ==
    /\ \A r \in Runs :
          r.dryRun => /\ r.after = r.before
                      /\ "beforeSync" \notin Range(r.steps)
                      /\ "afterSync" \notin Range(r.steps)
    /\ \A o \in Range(ops) : o.dryRun => o.after = o.before

\* a preview sync that would make links with both hooks configured, and a
\* preview clean that would remove a broken link
C14_Witness ==
    /\ \E r \in Runs : r.dryRun /\ r.result.created > 0 /\ hookRuns(config.hooks.beforeSync, FALSE)
    /\ \E o \in Range(ops) : o.op = "clean" /\ o.dryRun /\ o.cleaned # <<>>

(***************************************************************************)
(* C21: the source tree of a plan is none of its target trees and no       *)
(* action of the plan has the source tree as its target tree, with and     *)
(* without a selective worktree filter.                                    *)
(***************************************************************************)
C21_SourceIsNeverTarget ==
    \A pl \in PlanRecords :
        /\ \A i \in DOMAIN pl.plan.targetWorktrees :
              pl.plan.targetWorktrees[i].path # pl.plan.sourceWorktree.path
        /\ \A a \in Range(pl.plan.syncActions) :
              a.targetWorktree # pl.plan.sourceWorktree.path

\* the source is a tree other than the main one, and the filter names the source
\* or keeps both trees left
C21_Witness ==
    \E pl \in PlanRecords :
        /\ pl.plan.sourceWorktree.path = Feat1Tree.path
        /\ pl.selectiveSync.worktreeName = "feat"
        /\ Len(pl.plan.targetWorktrees) = 1
        /\ pl.plan.syncActions # <<>>

(***************************************************************************)
(* C28 (as claimed): when no discovered tree is designated by the source   *)
(* selector (by branch, by path or by directory name), getSourceWorktree   *)
(* raises "source not found" and no tree is used as source.                *)
(***************************************************************************)
Designates(k, wt) ==
    \/ wt.branch = k.selector
    \/ wt.path = resolve(<<>>, SelectorText[k.selector]) /\ SelectorText[k.selector].abs
    \/ /\ looksLikePath(k.selector)
       /\ wt.path \in {resolve(k.repositoryRoot, SelectorText[k.selector]),
                       resolve(dirname(k.repositoryRoot), SelectorText[k.selector])}
    \/ basename(wt.path) = k.selector
Designated(k) == {wt \in Range(k.worktrees) : Designates(k, wt)}
MainTrees(k) == {wt \in Range(k.worktrees) : wt.isMain}

C28_AbsentSourceRaises ==
    \A k \in Range(lookups) : Designated(k) = {} => k.found = {}

(***************************************************************************)
(* C28 (amended): when no discovered tree is designated by the selector,   *)
(* getSourceWorktree falls back to the main tree of the list (the tree the *)
(* command runs in) and raises "source not found" only when the list has   *)
(* no main tree; when a tree is designated, a designated tree is returned. *)
(***************************************************************************)
C28_AbsentSourceFallsBackToMain ==
    \A k \in Range(lookups) :
        /\ Designated(k) = {} /\ MainTrees(k) = {} => k.found = {}
        /\ Designated(k) = {} /\ MainTrees(k) # {} => k.found = MainTrees(k)
        /\ Designated(k) # {} => k.found # {} /\ k.found \subseteq Designated(k)

\* the selector names nothing, the command runs in a listed tree other than the
\* first, and that tree becomes the source
C28_Witness ==
    \E k \in Range(lookups) :
        /\ k.selector = "nosuch"
        /\ Len(k.worktrees) = 3
        /\ k.repositoryRoot = Feat1Tree.path
        /\ k.found = {k.worktrees[2]}

(***************************************************************************)
(* C22 (as claimed): when a target tree holds exactly one dangling         *)
(* symbolic link and nothing else, status reports for that tree            *)
(* broken=[file], valid=[] and missing=[].                                 *)
(***************************************************************************)
StatusReports == {o \in Range(ops) : o.op = "status"}
TreeEntries(d, tree) == {n \in Names : lstatSync(d, join(tree, <<n>>)).kind # "absent"}
Dangling(d, p) == IsLink(d, p) /\ statSync(d, p, MaxHops).kind = "absent"
OnlyDanglingLink(d, tree, file) ==
    TreeEntries(d, tree) = {file} /\ Dangling(d, join(tree, <<file>>))
PlannedFiles(d) == Range(actionFiles(createSyncPlan(d, config, NoSelectiveSync).syncActions))

LinksFound(d, tree) == {n \in Names : IsLink(d, join(tree, <<n>>))}
StatusUniverse(d, tree) == PlannedFiles(d) \cup LinksFound(d, tree)
ListedIn(list, file) == Cardinality({k \in DOMAIN list : list[k] = file})

C23_StatusListsPartition ==
    \A o \in StatusReports : \A i \in DOMAIN o.status.targetWorktrees :
        LET tree == o.status.targetWorktrees[i]
            st == o.status.syncedFiles[i]
        IN  /\ \A file \in StatusUniverse(o.before, tree) :
                  ListedIn(st.valid, file) + ListedIn(st.broken, file)
                    + ListedIn(st.missing, file) = 1
            /\ \A file \in Range(st.valid) :
                  /\ IsLink(o.before, join(tree, <<file>>))
                  /\ ~Dangling(o.before, join(tree, <<file>>))
            /\ \A file \in Range(st.broken) : Dangling(o.before, join(tree, <<file>>))
            /\ \A file \in Range(st.missing) :
                  lstatSync(o.before, join(tree, <<file>>)).kind = "absent"

(***************************************************************************)
(* C24: the files status classifies for a tree are the planned files and   *)
(* the symbolic links found in the tree; a link found in the tree is in    *)
(* valid or in broken also when its file is not planned any more, and in   *)
(* broken when its destination is gone.                                    *)
(***************************************************************************)
C24_FoundLinksAreClassified ==
    \A o \in StatusReports : \A i \in DOMAIN o.status.targetWorktrees :
        LET tree == o.status.targetWorktrees[i]
            st == o.status.syncedFiles[i]
        IN  /\ Range(st.valid) \cup Range(st.broken) \cup Range(st.missing)
                 = StatusUniverse(o.before, tree)
            /\ \A file \in LinksFound(o.before, tree) :
                  IF Dangling(o.before, join(tree, <<file>>))
                  THEN file \in Range(st.broken)
                  ELSE file \in Range(st.valid)

\* a link to a source file that is gone and is not planned any more is broken
C24_Witness ==
    \E o \in StatusReports : \E i \in DOMAIN o.status.targetWorktrees :
        /\ ".env" \notin PlannedFiles(o.before)
        /\ LinksTo(o.before, join(o.status.targetWorktrees[i], <<".env">>),
                   join(SourceTree.path, <<".env">>))
        /\ o.status.syncedFiles[i].broken = <<".env">>

(***************************************************************************)
(* C25: isValidSymlink and isSymlinkPointingTo never raise: whatever fs    *)
(* call fails, with whatever error (permission denied, link cycle, stale   *)
(* handle, I/O error, too many open files), nothing is thrown to the       *)
(* caller and the answer is false; when no call fails the answer is the    *)
(* one the state of the disk gives.                                        *)
(***************************************************************************)
C25_PredicatesNeverRaise ==
    \A k \in Range(probes) :
        /\ k.outcome.thrown = ""
        /\ k.fault # NoFault => k.outcome.value = FALSE
        /\ k.fault = NoFault /\ k.predicate = "isValidSymlink" =>
              k.outcome.value = isValidSymlink(k.before, k.path)
        /\ k.fault = NoFault /\ k.predicate = "isSymlinkPointingTo" =>
              k.outcome.value = isSymlinkPointingTo(k.before, k.path, k.expected)

\* readlink fails with an I/O error on a link that leads to the expected file
C25_Witness ==
    \E k \in Range(probes) :
        /\ k.predicate = "isSymlinkPointingTo"
        /\ k.fault = Fault("readlinkSync", "EIO")
        /\ LinksTo(k.before, k.path, k.expected)
        /\ k.outcome = Returned(FALSE)

(***************************************************************************)
(* C26: isSymlinkPointingTo compares resolved absolute paths: its answer   *)
(* for a link is the answer for the same link written in the other style   *)
(* (relative text for absolute, absolute for relative), and it is true for *)
(* a link of either style that leads to the expected file, which exists.   *)
(***************************************************************************)
OtherStyle(d, p) ==
    [d EXCEPT ![p] = Link(IF d[p].text.abs
                          THEN relative(dirname(p), resolve(dirname(p), d[p].text))
                          ELSE AbsText(resolve(dirname(p), d[p].text)))]
PointsToProbes ==
    {k \in Range(probes) : k.predicate = "isSymlinkPointingTo" /\ k.fault = NoFault}

C26_PointsToIgnoresLinkStyle ==
    \A k \in PointsToProbes :
        IsLink(k.before, k.path) =>
            /\ readlinkSync(OtherStyle(k.before, k.path), k.path).abs
                 # readlinkSync(k.before, k.path).abs
            /\ k.outcome.value
                 = isSymlinkPointingToWith(OtherStyle(k.before, k.path), k.path,
                                           k.expected, NoFault).value
            /\ (LinksTo(k.before, k.path, k.expected) /\ existsSync(k.before, k.expected))
                 => k.outcome.value

\* a link with relative text leads to the expected file and the answer is true
C26_Witness ==
    \E k \in PointsToProbes :
        /\ IsLink(k.before, k.path)
        /\ ~readlinkSync(k.before, k.path).abs
        /\ k.outcome.value
        /\ k.expected = join(SourceTree.path, <<".env">>)

(***************************************************************************)
(* C27: when a target tree is unreachable, validation records a warning    *)
(* and the run goes on; every action for that tree is attempted and ends   *)
(* as a per-action error of its own, and the actions for the other target  *)
(* trees are applied as in a run where every tree is reachable.            *)
(***************************************************************************)
Unreachable(d) ==
    {TargetTrees[i].path : i \in {j \in DOMAIN TargetTrees :
                                    ~validateWorktreeAccess(d, TargetTrees[j])}}
ValidatedRuns ==
    {r \in LiveRuns : \E i \in DOMAIN r.steps : r.steps[i] = "validate"}
FailedOnItsOwn(r, i) ==
    /\ i \in Range(r.attempted)
    /\ \E k \in DOMAIN PerActionErrors(r) :
          /\ PerActionErrors(r)[k].file = r.plan[i].file
          /\ PerActionErrors(r)[k].worktree = r.plan[i].targetWorktree
AppliedNormally(r, i) ==
    /\ i \in Range(r.attempted)
    /\ r.plan[i].action \in {"create", "update"} /\ SourceExists(r.before, r.plan[i])
          => LinksTo(r.after, r.plan[i].targetPath, r.plan[i].sourcePath)

C27_UnreachableTargetActionsFail ==
    \A r \in ValidatedRuns :
        (validateWorktreeAccess(r.before, SourceTree) /\ Unreachable(r.before) # {}) =>
            /\ r.valid
            /\ Len(validatePlan(r.before, [sourceWorktree |-> SourceTree,
                                            targetWorktrees |-> TargetTrees]).warnings)
                 = Cardinality(Unreachable(r.before))
            /\ \A i \in DOMAIN r.plan :
                  IF r.plan[i].targetWorktree \in Unreachable(r.before)
                  THEN FailedOnItsOwn(r, i)
                  ELSE AppliedNormally(r, i)

\* the part of C27 the code keeps: the warning, no abort, every action attempted
\* and the other trees applied normally
C27_UnreachableTargetDoesNotAbort ==
    \A r \in ValidatedRuns :
        (validateWorktreeAccess(r.before, SourceTree) /\ Unreachable(r.before) # {}) =>
            /\ r.valid
            /\ \A i \in DOMAIN r.plan :
                  /\ i \in Range(r.attempted)
                  /\ r.plan[i].targetWorktree \notin Unreachable(r.before)
                        => AppliedNormally(r, i)

\* the directory of feat1 is gone and the run still links .env inside it
C27_Recreated ==
    ~ \E r \in ValidatedRuns :
        /\ Feat1Tree.path \in Unreachable(r.before)
        /\ validateWorktreeAccess(r.after, Feat1Tree)
        /\ PerActionErrors(r) = <<>>
        /\ r.result.created > 0

(***************************************************************************)
(* C29: a live unlink called in the source tree (mode all) leaves no       *)
(* symbolic link at a configured path of any target tree; called in a      *)
(* target tree (mode current) it leaves none at the configured paths of    *)
(* that tree and changes nothing in the other target trees.                *)
(***************************************************************************)
Unlinks == {o \in Range(ops) : o.op = "unlink" /\ ~o.dryRun}
ConfiguredFiles(d) == Range(unique(actionFiles(createSyncPlan(d, config, NoSelectiveSync).syncActions)))
TargetPaths == {TargetTrees[i].path : i \in DOMAIN TargetTrees}
UnlinkedTrees(o) ==
    IF o.cwd = SourceTree.path THEN TargetPaths ELSE {o.cwd} \cap TargetPaths
SameTree(o, tree) ==
    \A p \in Paths : (Len(p) > Len(tree) /\ SubSeq(p, 1, Len(tree)) = tree)
                        => o.after[p] = o.before[p]

C29_UnlinkRemovesConfiguredLinks ==
    \A o \in Unlinks :
        /\ o.mode = IF o.cwd = SourceTree.path THEN "all" ELSE "current"
        /\ \A tree \in UnlinkedTrees(o) : \A file \in ConfiguredFiles(o.before) :
              ~IsLink(o.after, join(tree, <<file>>))
        /\ \A tree \in TargetPaths \ UnlinkedTrees(o) : SameTree(o, tree)

\* the same for the links whose destination exists, the only ones unlink removes
C29_UnlinkRemovesResolvingLinks ==
    \A o \in Unlinks :
        /\ o.mode = IF o.cwd = SourceTree.path THEN "all" ELSE "current"
        /\ \A tree \in UnlinkedTrees(o) : \A file \in ConfiguredFiles(o.before) :
              IsLink(o.after, join(tree, <<file>>)) => Dangling(o.before, join(tree, <<file>>))
        /\ \A tree \in TargetPaths \ UnlinkedTrees(o) : SameTree(o, tree)

\* unlink called in feat1 after a sync: the links of feat1 go, those of feat2 stay
C29_CurrentModeReached ==
    ~ \E o \in Unlinks :
        /\ o.cwd = Feat1Tree.path /\ o.mode = "current"
        /\ o.removed # <<>>
        /\ \E file \in ConfiguredFiles(o.before) : IsLink(o.after, join(Feat2Tree.path, <<file>>))

(***************************************************************************)
(* C30: unlink removes symbolic links only: whatever is no symbolic link   *)
(* before a live unlink (a plain file or a directory at a configured path  *)
(* of a target tree, every file of the source tree) is there unchanged     *)
(* after it, content included, and every path it reports removed held a    *)
(* symbolic link.                                                          *)
(***************************************************************************)
C30_UnlinkRemovesOnlyLinks ==
    \A o \in Unlinks :
        /\ \A p \in Paths : ~IsLink(o.before, p) => o.after[p] = o.before[p]
        /\ \A p \in Paths : o.after[p] # o.before[p] =>
              /\ IsLink(o.before, p) /\ o.after[p] = Absent
              /\ \E tree \in TargetPaths : \E file \in Range(o.removed) :
                    p = join(tree, <<file>>)

\* an unlink that removed a link of a tree and kept the plain file at another
\* configured path of the same tree
C30_Witness ==
    \E o \in Unlinks : \E tree \in UnlinkedTrees(o) :
        \E kept \in ConfiguredFiles(o.before), gone \in ConfiguredFiles(o.before) :
            /\ o.before[join(tree, <<kept>>)].kind = "file"
            /\ o.after[join(tree, <<kept>>)] = o.before[join(tree, <<kept>>)]
            /\ IsLink(o.before, join(tree, <<gone>>))
            /\ o.after[join(tree, <<gone>>)] = Absent
            /\ IsPlain(o.before, join(SourceTree.path, <<gone>>))

(***************************************************************************)
(* C31: the health check gives exactly one remediation line for each       *)
(* category that has a finding (invalid configuration, unreachable source, *)
(* unreachable target, missing source files, broken links, permission      *)
(* errors), however many items the category lists.                         *)
(***************************************************************************)
DoctorReports == {o \in Range(ops) : o.op = "doctor"}
Findings(result) ==
    {c \in {"config", "source", "targets", "missing", "clean", "permissions"} :
        \/ c = "config" /\ ~result.configValid
        \/ c = "source" /\ ~result.sourceWorktreeExists
        \/ c = "targets" /\ ~result.targetWorktreesAccessible
        \/ c = "missing" /\ result.missingFiles # <<>>
        \/ c = "clean" /\ result.brokenSymlinks # <<>>
        \/ c = "permissions" /\ result.permissionIssues # <<>>}
LinesOf(result, category) ==
    {i \in DOMAIN result.recommendations : result.recommendations[i][1] = category}

C31_OneLinePerCategory ==
    \A o \in DoctorReports :
        /\ Len(o.status.recommendations) = Cardinality(Findings(o.status))
        /\ \A c \in Findings(o.status) : Cardinality(LinesOf(o.status, c)) = 1

(***************************************************************************)
(* C31 (amended): one remediation line for each category that has a        *)
(* finding, except the missing source files, which get one line for every  *)
(* missing pattern, the line naming the pattern.                           *)
(***************************************************************************)
C31_OneLinePerCategoryAndMissingFile ==
    \A o \in DoctorReports :
        /\ \A c \in Findings(o.status) \ {"missing"} : Cardinality(LinesOf(o.status, c)) = 1
        /\ Cardinality(LinesOf(o.status, "missing")) = Len(o.status.missingFiles)
        /\ \A i \in DOMAIN o.status.missingFiles :
              <<"missing", o.status.missingFiles[i]>> \in Range(o.status.recommendations)
        /\ \A i \in DOMAIN o.status.recommendations :
              o.status.recommendations[i][1] \in Findings(o.status)

\* two patterns are missing and links are broken in two trees: two lines for the
\* patterns, one for the links
C31_Witness ==
    \E o \in DoctorReports :
        /\ Len(o.status.missingFiles) = 2
        /\ Len(o.status.brokenSymlinks) = 2
        /\ Len(o.status.recommendations) = 3

(***************************************************************************)
(* C32: the health check reports reachability truthfully: the source-tree  *)
(* flag is false whenever the path of the source tree cannot be reached,   *)
(* the target-tree flag is false whenever the path of at least one target  *)
(* tree cannot be reached.                                                 *)
(***************************************************************************)
C32_ReachabilityFlagsAreTruthful ==
    \A o \in DoctorReports :
        o.status.configValid =>
            /\ ~validateWorktreeAccess(o.before, SourceTree) => ~o.status.sourceWorktreeExists
            /\ Unreachable(o.before) # {} => ~o.status.targetWorktreesAccessible

(***************************************************************************)
(* C33: planning, plan validation, status and the health check are         *)
(* read-only: after any of them every filesystem entry is what it was      *)
(* before, so however many times they are invoked the disk stays the       *)
(* initial one and the same operation gives the same result again.         *)
(***************************************************************************)
C33_InspectionsAreReadOnly ==
    /\ \A i \in DOMAIN ops : ops[i].after = ops[i].before
    /\ \A i \in DOMAIN ops : ops[i].before = ops[1].before /\ disk = ops[1].before
    /\ \A i \in DOMAIN ops : \A j \in DOMAIN ops :
          ops[i].op = ops[j].op => ops[i].status = ops[j].status

\* status twice on a disk with a broken link in a target tree
C33_Witness ==
    /\ Len(ops) = 2
    /\ ops[1].op = "status" /\ ops[2].op = "status"
    /\ \E i \in DOMAIN ops[2].status.syncedFiles : ops[2].status.syncedFiles[i].broken # <<>>
    /\ \E p \in TargetFilePaths : Dangling(disk, p)

(***************************************************************************)
(* C34: in every run that passes validation, live or preview, each action  *)
(* of the plan is accounted for exactly once: for each kind of action the  *)
(* counter of the kind plus the per-action errors of actions of that kind  *)
(* is the number of actions of that kind, so the three counters and the    *)
(* per-action errors add up to the length of the plan and a failed action  *)
(* adds to no counter; a preview run has no per-action error.              *)
(***************************************************************************)
ActionsOfKind(r, kind) == {i \in DOMAIN r.plan : r.plan[i].action = kind}
FailedOfKind(r, kind) ==
    {k \in DOMAIN PerActionErrors(r) :
        \E i \in ActionsOfKind(r, kind) :
            /\ r.plan[i].file = PerActionErrors(r)[k].file
            /\ r.plan[i].targetWorktree = PerActionErrors(r)[k].worktree}
CounterOf(r, kind) ==
    CASE kind = "create" -> r.result.created
      [] kind = "update" -> r.result.updated
      [] kind = "skip" -> r.result.skipped

C34_EveryActionCountedOnce ==
    \A r \in ExecutedRuns :
        /\ \A kind \in {"create", "update", "skip"} :
              CounterOf(r, kind) + Cardinality(FailedOfKind(r, kind))
                = Cardinality(ActionsOfKind(r, kind))
        /\ CounterOf(r, "create") + CounterOf(r, "update") + CounterOf(r, "skip")
              + Len(PerActionErrors(r)) = Len(r.plan)
        /\ r.dryRun => PerActionErrors(r) = <<>>

\* a preview that counts a create and the live run after it in which that create fails
C34_Witness ==
    /\ Len(history) = 2
    /\ history[1].dryRun /\ history[1].valid
    /\ ~history[2].dryRun /\ history[2].valid
    /\ history[2].plan = history[1].plan
    /\ FailedOfKind(history[2], "create") # {}
    /\ CounterOf(history[2], "create") < CounterOf(history[1], "create")

(***************************************************************************)
(* C35: the link text on disk after a create or update action was applied *)
(* is exactly the link text the planner precomputed in the action: the     *)
(* relative text from the directory of the target path in relative mode,   *)
(* the absolute source path in absolute mode.                              *)
(***************************************************************************)
AppliedLinks ==
    {i \in DOMAIN applied : /\ applied[i].action.action \in {"create", "update"}
                             /\ applied[i].error = NoError}

C35_WrittenTextIsPlannedText ==
    \A i \in AppliedLinks :
        /\ IsLink(applied[i].after, applied[i].action.targetPath)
        /\ readlinkSync(applied[i].after, applied[i].action.targetPath)
             = applied[i].action.linkPath
        /\ applied[i].action.linkPath
             \in {AbsText(applied[i].action.sourcePath),
                  relative(dirname(applied[i].action.targetPath), applied[i].action.sourcePath)}

\* an update in absolute mode replaced a link with relative text
C35_Witness ==
    \E i \in AppliedLinks :
        /\ applied[i].action.action = "update"
        /\ IsLink(applied[i].before, applied[i].action.targetPath)
        /\ ~readlinkSync(applied[i].before, applied[i].action.targetPath).abs
        /\ readlinkSync(applied[i].after, applied[i].action.targetPath)
             = AbsText(applied[i].action.sourcePath)

(***************************************************************************)
(* C36: applying a create action is idempotent: applied to a target path   *)
(* that already holds a symbolic link it succeeds, and applied again after *)
(* it succeeded it succeeds again and leaves the disk it left the first    *)
(* time.                                                                   *)
(***************************************************************************)
Creates == {i \in DOMAIN applied : applied[i].action.action = "create"}
AppliedAgain(i) == executeAction(applied[i].after, applied[i].action, applied[i].overwrite)

C36_CreateIsIdempotent ==
    \A i \in Creates :
        /\ IsLink(applied[i].before, applied[i].action.targetPath) => applied[i].error = NoError
        /\ applied[i].error = NoError => AppliedAgain(i) = Ok(applied[i].after)

\* the same for the links that resolve: a create over a link whose destination
\* exists succeeds, and a create whose source file exists can be applied again
C36_CreateOverResolvingLinkIsIdempotent ==
    \A i \in Creates :
        /\ (/\ IsLink(applied[i].before, applied[i].action.targetPath)
             /\ ~Dangling(applied[i].before, applied[i].action.targetPath))
              => applied[i].error = NoError
        /\ (applied[i].error = NoError /\ SourceExists(applied[i].before, applied[i].action))
              => AppliedAgain(i) = Ok(applied[i].after)

(***************************************************************************)
(* C37: with overwrite disabled, whatever sync, unlink and clean runs,     *)
(* live or preview, and whatever actions of stale plans are applied, in    *)
(* any order, a plain file or directory that is on the disk before a step  *)
(* is there unchanged after it, in every tree; so every plain entry of the *)
(* first disk is on the last.                                              *)
(***************************************************************************)
KeepsPlain(before, after) == \A p \in Paths : IsPlain(before, p) => after[p] = before[p]

C37_PlainEntriesSurvive ==
    ~config.overwrite =>
        /\ \A i \in DOMAIN history : KeepsPlain(history[i].before, history[i].after)
        /\ \A i \in DOMAIN ops : KeepsPlain(ops[i].before, ops[i].after)
        /\ \A i \in DOMAIN applied : KeepsPlain(applied[i].before, applied[i].after)
        /\ \A i \in DOMAIN history : KeepsPlain(history[i].before, disk)
        /\ \A i \in DOMAIN applied : KeepsPlain(applied[i].before, disk)

\* a live sync made links around the plain file, then a stale create was applied
\* at the path of the plain file and failed
C37_Witness ==
    /\ ~config.overwrite
    /\ \E i \in DOMAIN history : ~history[i].dryRun /\ history[i].result.created > 0
    /\ \E i \in DOMAIN applied :
          /\ applied[i].action.action = "create"
          /\ applied[i].before[applied[i].action.targetPath].kind = "file"
          /\ applied[i].error # NoError
          /\ disk[applied[i].action.targetPath] = File("local")

(***************************************************************************)
(* C38: a live clean that reports no error removes exactly the entries     *)
(* status classified as broken before it: those paths are empty after it,  *)
(* it lists them as cleaned, every other entry (valid links and plain      *)
(* entries included) is unchanged, and status after it reports an empty    *)
(* broken list for every target tree.                                      *)
(***************************************************************************)
Cleans == {i \in DOMAIN ops : ops[i].op = "clean" /\ ~ops[i].dryRun /\ ops[i].errors = <<>>}
BrokenBefore(i) ==
    {<<TargetTrees[x[1]].path, x[2]>> :
        x \in {y \in (DOMAIN TargetTrees) \X Names :
                 y[2] \in Range(checkStatus(ops[i].before, config).syncedFiles[y[1]].broken)}}

C38_CleanRemovesExactlyBroken ==
    \A i \in Cleans :
        /\ Range(ops[i].cleaned) = BrokenBefore(i)
        /\ \A b \in BrokenBefore(i) : ops[i].after[join(b[1], <<b[2]>>)] = Absent
        /\ \A p \in Paths :
              (\A b \in BrokenBefore(i) : p # join(b[1], <<b[2]>>))
                 => ops[i].after[p] = ops[i].before[p]
        /\ \A t \in DOMAIN TargetTrees :
              checkStatus(ops[i].after, config).syncedFiles[t].broken = <<>>

\* after a sync that linked the other files, clean removes the one broken link
\* and keeps a valid link of the same tree
C38_Witness ==
    \E i \in Cleans :
        /\ Len(ops[i].cleaned) = 2
        /\ \E t \in DOMAIN TargetTrees :
              /\ checkStatus(ops[i].before, config).syncedFiles[t].broken # <<>>
              /\ \E file \in Names :
                    /\ IsLink(ops[i].after, join(TargetTrees[t].path, <<file>>))
                    /\ file \in Range(checkStatus(ops[i].after, config).syncedFiles[t].valid)

(***************************************************************************)
(* C39: the source selector is resolved by trying, in this order, the      *)
(* branch name, the absolute path, the relative path and the directory     *)
(* name; the first rule a discovered tree satisfies decides, and the tree  *)
(* returned satisfies it: a tree whose branch is the selector is chosen    *)
(* over another tree whose directory name is the selector.                 *)
(***************************************************************************)
RuleHolds(k, rule, wt) ==
    CASE rule = 1 -> wt.branch = k.selector
      [] rule = 2 -> SelectorText[k.selector].abs /\ wt.path = SelectorText[k.selector].segs
      [] rule = 3 -> /\ looksLikePath(k.selector)
                     /\ wt.path \in {resolve(k.repositoryRoot, SelectorText[k.selector]),
                                     resolve(dirname(k.repositoryRoot),
                                             SelectorText[k.selector])}
      [] rule = 4 -> basename(wt.path) = k.selector
BySelector(k, rule) == {wt \in Range(k.worktrees) : RuleHolds(k, rule, wt)}
FirstRule(k) == {rule \in 1..4 : /\ BySelector(k, rule) # {}
                                  /\ \A earlier \in 1..(rule - 1) : BySelector(k, earlier) = {}}

C39_FirstMatchingRuleDecides ==
    \A k \in Range(lookups) : \A rule \in FirstRule(k) :
        /\ Cardinality(k.found) = 1
        /\ k.found \subseteq BySelector(k, rule)

\* the selector is the branch of one tree and the directory name of another
C39_Witness ==
    \E k \in Range(lookups) :
        /\ FirstRule(k) = {1}
        /\ BySelector(k, 4) # {}
        /\ BySelector(k, 4) \cap BySelector(k, 1) = {}
        /\ k.found \subseteq BySelector(k, 1)

(***************************************************************************)
(* C40: when two live sync runs with the same configuration run at the     *)
(* same time on the same target trees, then in every interleaving of their *)
(* fs calls both runs end with no per-action error and every planned       *)
(* target path ends as a symbolic link to its source file.                 *)
(***************************************************************************)
BothDone == \A self \in Procs : procs[self].pc = "done"
LinksInPlace ==
    \A self \in Procs : \A i \in DOMAIN procs[self].plan :
        LinksTo(disk, procs[self].plan[i].targetPath, procs[self].plan[i].sourcePath)

C40_ConcurrentRunsSucceed ==
    BothDone => /\ \A self \in Procs : procs[self].result.errors = <<>>
                /\ LinksInPlace

\* what holds of the two runs: the links are in place when both are done
C40_ConcurrentRunsLeaveLinks == BothDone => LinksInPlace

====
